---- MODULE Spec2Model ----
(***************************************************************************)
(* Attendance tracking for library training events (src/app.py).          *)
(* The relational tables are sets of rows, every HTTP handler is an       *)
(* action (or a chain of actions, one per SQL statement, where another    *)
(* request may run between two statements), and the constraints the       *)
(* schema declares are enforced where the database in use enforces them.  *)
(***************************************************************************)
EXTENDS Integers, Sequences, FiniteSets, TLC

VARIABLES
    USE_POSTGRES,      \* backend chosen at import time from DATABASE_URL
    asistencias,       \* table asistencias: set of rows
    evaluaciones,      \* table evaluaciones_capacitaciones: set of rows
    programas,         \* table programas: set of rows
    modalidades,       \* table modalidades: set of rows
    inversiones_institucionales,  \* table inversiones_institucionales
    inversiones_programas,        \* table inversiones_programas
    usuarios,          \* table usuarios: set of rows
    session,           \* the session of the browser: its 'usuario', "" when it has none
    mensaje_limpieza_global,      \* <<>> for None, <<n>> for the message of n deleted rows
    seq,               \* next value of each table's id sequence
    pc,                \* per request slot: the statement it is about to run
    req,               \* per request slot: the locals of the request in flight
    resp               \* the last response sent

vars == <<USE_POSTGRES, asistencias, evaluaciones, programas, modalidades,
          inversiones_institucionales, inversiones_programas, usuarios, session,
          mensaje_limpieza_global, seq, pc, req, resp>>

\* the users and the session, which only /registro, /login and /logout write
Cuentas == <<usuarios, session>>

\* the investment tables, which only the investment routes write
TablasInversiones == <<inversiones_institucionales, inversiones_programas>>

(***************************************************************************)
(* Bounds of the model.                                                    *)
(***************************************************************************)
\* request slots that may be in flight at once
NumProcs == 2
\* ids the asistencias sequence may hand out
MaxAsistencias == 2
\* ids the programas / modalidades sequences may hand out
MaxCatalogo == 2
\* rows of an uploaded sheet
MaxFilas == 2
\* distinct events of a statistics table
MaxEventosEstadisticas == 16
\* longest window a cleanup is asked to keep, in years
MaxAnosMantener == 6

Procs == 1..NumProcs

(***************************************************************************)
(* Dates.  fecha_evento is TEXT "YYYY-MM-DD"; a date is the sequence      *)
(* <<y, m, d>> of its fields, so that text order is the lexicographic     *)
(* order and SUBSTR(fecha_evento, 1, 4) is its first field.  A sheet cell *)
(* that pandas read as a datetime is written by str() with a time part:   *)
(* <<y, m, d, 0>> stands for "YYYY-MM-DD 00:00:00".  <<y, m, d, 1>> is   *)
(* the date written without leading zeros, "YYYY-M-D".  <<>> is the empty *)
(* string.                                                                 *)
(***************************************************************************)
ano_actual == 2025

Hoy == <<ano_actual, 6, 15>>

DiasMes(y, m) ==
    IF m \in {4, 6, 9, 11} THEN 30
    ELSE IF m = 2 THEN (IF y % 4 = 0 /\ (y % 100 # 0 \/ y % 400 = 0) THEN 29 ELSE 28)
    ELSE 31

\* a date of the calendar written as "YYYY-MM-DD"
FechaCanonica(f) ==
    /\ Len(f) = 3
    /\ f[1] \in 1..9999
    /\ f[2] \in 1..12
    /\ f[3] \in 1..DiasMes(f[1], f[2])

\* datetime.strptime(fecha_evento, "%Y-%m-%d") does not raise: %m and %d
\* take one digit or two, text after the day is refused
FechaValida(f) ==
    /\ Len(f) = 3 \/ (Len(f) = 4 /\ f[4] = 1)
    /\ f[1] \in 1..9999
    /\ f[2] \in 1..12
    /\ f[3] \in 1..DiasMes(f[1], f[2])

\* strftime("%d/%m/%Y") of a parsed date
fecha_formateada(f) == <<f[3], f[2], f[1]>>

\* CAST(SUBSTR(fecha_evento, 1, 4) AS INTEGER)
AnoDe(f) == IF Len(f) = 0 THEN 0 ELSE f[1]

\* text comparison a <= b of two stored dates
RECURSIVE FechaLeq(_, _)
FechaLeq(a, b) ==
    IF Len(a) = 0 THEN TRUE
    ELSE IF Len(b) = 0 THEN FALSE
    ELSE IF Head(a) < Head(b) THEN TRUE
    ELSE IF Head(a) > Head(b) THEN FALSE
    ELSE FechaLeq(Tail(a), Tail(b))

\* str(row['fecha_evento']) of a sheet cell: text stays, a datetime cell
\* gains the time part
StrCelda(celda) ==
    IF celda.tipo = "datetime" THEN celda.valor \o <<0>> ELSE celda.valor

(***************************************************************************)
(* Text.  A text is looked at character by character where the program    *)
(* searches and sorts: Letras gives the characters of each text of the    *)
(* model, TextoFecha those of a stored date.                               *)
(***************************************************************************)
MayusculasAscii ==
    <<"A", "B", "C", "D", "E", "F", "G", "H", "I", "J", "K", "L", "M",
      "N", "O", "P", "Q", "R", "S", "T", "U", "V", "W", "X", "Y", "Z">>

MinusculasAscii ==
    <<"a", "b", "c", "d", "e", "f", "g", "h", "i", "j", "k", "l", "m",
      "n", "o", "p", "q", "r", "s", "t", "u", "v", "w", "x", "y", "z">>

MayusculasAcentuadas == <<"Á", "É", "Í", "Ñ", "Ó", "Ú">>

MinusculasAcentuadas == <<"á", "é", "í", "ñ", "ó", "ú">>

\* the base letters of MinusculasAcentuadas
LetrasBase == <<"a", "e", "i", "n", "o", "u">>

DigitosDecimales == <<"0", "1", "2", "3", "4", "5", "6", "7", "8", "9">>

\* the characters in code point order, the order of a binary text comparison
Alfabeto ==
    <<" ", "-">> \o DigitosDecimales \o <<":">> \o MayusculasAscii \o MinusculasAscii
    \o MayusculasAcentuadas \o MinusculasAcentuadas

EnSecuencia(sec, c) == \E i \in 1..Len(sec) : sec[i] = c

Posicion(sec, c) == CHOOSE i \in 1..Len(sec) : sec[i] = c

\* the characters of the texts of the model
Letras(texto) ==
    CASE texto = "" -> <<>>
      [] texto = "Taller" -> <<"T", "a", "l", "l", "e", "r">>
      [] texto = "Visita de Grupos" ->
            <<"V", "i", "s", "i", "t", "a", " ", "d", "e", " ", "G", "r", "u", "p", "o", "s">>
      [] texto = "Biblioteca" -> <<"B", "i", "b", "l", "i", "o", "t", "e", "c", "a">>
      [] texto = "Docente" -> <<"D", "o", "c", "e", "n", "t", "e">>
      [] texto = "Asistente" -> <<"A", "s", "i", "s", "t", "e", "n", "t", "e">>
      [] texto = "Estudiante" -> <<"E", "s", "t", "u", "d", "i", "a", "n", "t", "e">>
      [] texto = "Principal" -> <<"P", "r", "i", "n", "c", "i", "p", "a", "l">>
      [] texto = "Presencial" -> <<"P", "r", "e", "s", "e", "n", "c", "i", "a", "l">>
      [] texto = "Virtual" -> <<"V", "i", "r", "t", "u", "a", "l">>
      [] texto = "A Distancia" -> <<"A", " ", "D", "i", "s", "t", "a", "n", "c", "i", "a">>
      [] texto = "Sistemas" -> <<"S", "i", "s", "t", "e", "m", "a", "s">>
      [] texto = "Derecho" -> <<"D", "e", "r", "e", "c", "h", "o">>
      [] texto = "Ingeniería" -> <<"I", "n", "g", "e", "n", "i", "e", "r", "í", "a">>
      [] texto = "DISEÑO" -> <<"D", "I", "S", "E", "Ñ", "O">>
      [] texto = "ÁREA" -> <<"Á", "R", "E", "A">>
      [] texto = "ingenieria" -> <<"i", "n", "g", "e", "n", "i", "e", "r", "i", "a">>
      [] texto = "INGENIERÍA" -> <<"I", "N", "G", "E", "N", "I", "E", "R", "Í", "A">>
      [] texto = "diseño" -> <<"d", "i", "s", "e", "ñ", "o">>
      [] texto = "area" -> <<"a", "r", "e", "a">>
      [] texto = "ere" -> <<"e", "r", "e">>
      [] texto = "2025" -> <<"2", "0", "2", "5">>
      [] texto = "1001" -> <<"1", "0", "0", "1">>
      [] texto = "1002" -> <<"1", "0", "0", "2">>
      [] texto = "1003" -> <<"1", "0", "0", "3">>

\* the decimal digits of n, ancho of them
RECURSIVE Cifras(_, _)
Cifras(n, ancho) ==
    IF ancho = 0 THEN <<>>
    ELSE Cifras(n \div 10, ancho - 1) \o <<DigitosDecimales[(n % 10) + 1]>>

\* the stored text of a date: "YYYY-MM-DD", with " 00:00:00" after it for a
\* date written from a datetime cell, "YYYY-M-D" for one without leading zeros
TextoFecha(f) ==
    IF Len(f) = 0 THEN <<>>
    ELSE IF Len(f) = 4 /\ f[4] = 1
    THEN Cifras(f[1], 4) \o <<"-">> \o Cifras(f[2], IF f[2] < 10 THEN 1 ELSE 2)
         \o <<"-">> \o Cifras(f[3], IF f[3] < 10 THEN 1 ELSE 2)
    ELSE Cifras(f[1], 4) \o <<"-">> \o Cifras(f[2], 2) \o <<"-">> \o Cifras(f[3], 2)
         \o (IF Len(f) = 4
             THEN <<" ", "0", "0", ":", "0", "0", ":", "0", "0">>
             ELSE <<>>)

\* str.lower(): every letter
MinusculaUnicode(c) ==
    IF EnSecuencia(MayusculasAscii, c) THEN MinusculasAscii[Posicion(MayusculasAscii, c)]
    ELSE IF EnSecuencia(MayusculasAcentuadas, c)
    THEN MinusculasAcentuadas[Posicion(MayusculasAcentuadas, c)]
    ELSE c

\* unicodedata.normalize('NFD', ...).encode('ascii', 'ignore'): an accented
\* letter keeps its base letter, its mark is dropped
SinDiacritico(c) ==
    IF EnSecuencia(MinusculasAcentuadas, c) THEN LetrasBase[Posicion(MinusculasAcentuadas, c)]
    ELSE IF EnSecuencia(MayusculasAcentuadas, c)
    THEN MayusculasAscii[Posicion(MayusculasAscii,
             CHOOSE m \in {MayusculasAscii[i] : i \in 1..Len(MayusculasAscii)} :
                 MinusculaUnicode(m) = LetrasBase[Posicion(MayusculasAcentuadas, c)])]
    ELSE c

\* normalize_text on the characters of a text
normalize_text(letras) ==
    [i \in 1..Len(letras) |-> SinDiacritico(MinusculaUnicode(letras[i]))]

(***************************************************************************)
(* get_ventana_anos                                                        *)
(***************************************************************************)
\* variant: the window ends the year before
VentanaHastaAnoAnterior(ano, num_anos) ==
    [anos |-> [i \in 1..num_anos |-> ano - num_anos + i - 1],
     ano_inicio |-> ano - num_anos,
     ano_fin |-> ano - 1]

\* the body of get_ventana_anos when datetime.now().year is ano:
\* list(range(ano_inicio, ano + 1)) with ano_inicio = ano - (num_anos - 1)
VentanaEn(ano, num_anos) ==
    LET ano_inicio == ano - (num_anos - 1)
    IN  [anos |-> [i \in 1..(ano + 1 - ano_inicio) |-> ano_inicio + i - 1],
         ano_inicio |-> ano_inicio,
         ano_fin |-> ano]

get_ventana_anos(num_anos) == VentanaEn(ano_actual, num_anos)

(***************************************************************************)
(* Rows and responses.                                                     *)
(***************************************************************************)
\* the key of the unique index idx_asistencias_unique
Clave(r) == <<r.numero_identificacion, r.nombre_evento, r.fecha_evento>>

Fila(id, f, fecha) ==
    [id |-> id,
     nombre_evento |-> f.nombre_evento,
     dictado_por |-> f.dictado_por,
     docente |-> f.docente,
     programa_docente |-> f.programa_docente,
     numero_identificacion |-> f.numero_identificacion,
     nombre_completo |-> f.nombre_completo,
     programa_estudiante |-> f.programa_estudiante,
     modalidad |-> f.modalidad,
     tipo_asistente |-> f.tipo_asistente,
     sede |-> f.sede,
     fecha_evento |-> fecha]

NoReq == [ruta |-> "none"]

\* what a handler returns: the slot it answers, the route, the HTTP status,
\* the template or redirect target, the error shown and the value it carries
Respuesta(p, ruta, codigo, destino, error, dato) ==
    [proc |-> p, ruta |-> ruta, codigo |-> codigo, destino |-> destino,
     error |-> error, dato |-> dato]

NoResp == Respuesta(0, "none", 0, "", "", <<>>)

\* a call of get_ventana_anos in the year ano; what it returns is kept with
\* the call's input
get_ventana_anos_call(ano, num_anos) ==
    /\ resp' = Respuesta(0, "get_ventana_anos", 0, "", "",
                         [ano |-> ano, num_anos |-> num_anos,
                          ventana |-> VentanaEn(ano, num_anos)])
    /\ UNCHANGED <<USE_POSTGRES, Cuentas, mensaje_limpieza_global, TablasInversiones,
                   asistencias, evaluaciones, programas, modalidades, seq, pc, req>>

\* variant: the session is not looked at
SesionIgnorada(autenticado) == FALSE

\* "usuario" not in session
SinSesion(autenticado) == ~autenticado

\* variants without the index, and with an index that leaves fecha_evento out
SinIndiceUnico(tabla, clave) == FALSE

IndiceSinFecha(tabla, clave) ==
    \E r \in tabla : /\ r.numero_identificacion = clave[1]
                     /\ r.nombre_evento = clave[2]

\* CREATE UNIQUE INDEX idx_asistencias_unique: an INSERT of this key raises
ViolaIndiceUnico(tabla, clave) == \E r \in tabla : Clave(r) = clave

(***************************************************************************)
(* /formulario POST.  Two statements: the pre-check COUNT, then the       *)
(* INSERT with its commit.                                                 *)
(***************************************************************************)
campos_requeridos ==
    <<"nombre_evento", "dictado_por", "docente", "programa_docente",
      "numero_identificacion", "nombre_completo", "programa_estudiante",
      "modalidad", "tipo_asistente", "sede">>

\* the first required field that is empty after strip(), 0 when none is
PrimerCampoVacio(f) ==
    LET vacios == {i \in 1..Len(campos_requeridos) : f[campos_requeridos[i]] = ""}
    IN  IF vacios = {} THEN 0 ELSE CHOOSE i \in vacios : \A j \in vacios : i <= j

\* variant: the pre-check compares fecha_evento with today's date
ContarClaveDeHoy(tabla, clave) ==
    Cardinality({r \in tabla : Clave(r) = <<clave[1], clave[2], Hoy>>})

\* SELECT COUNT(*) FROM asistencias WHERE numero_identificacion = ? AND
\* nombre_evento = ? AND fecha_evento = ?
ContarClave(tabla, clave) == Cardinality({r \in tabla : Clave(r) = clave})

formulario_check(p, f) ==
    /\ pc[p] = "idle"
    /\ LET vacio == PrimerCampoVacio(f)
           fecha_evento == IF f.fecha_evento = <<>> THEN Hoy ELSE f.fecha_evento
           clave == <<f.numero_identificacion, f.nombre_evento, fecha_evento>>
       IN  IF vacio # 0
           THEN /\ resp' =
                       Respuesta(p, "formulario", 200, "formulario.html",
                                 "campo_requerido", campos_requeridos[vacio])
                /\ UNCHANGED <<pc, req>>
           ELSE IF ~FechaValida(fecha_evento)
           THEN /\ resp' =
                       Respuesta(p, "formulario", 200, "formulario.html",
                                 "fecha_invalida", <<>>)
                /\ UNCHANGED <<pc, req>>
           ELSE IF ContarClave(asistencias, clave) > 0
           THEN /\ resp' =
                       Respuesta(p, "formulario", 200, "formulario.html",
                                 "ya_registrada",
                                 <<f.numero_identificacion, f.nombre_evento,
                                   fecha_formateada(fecha_evento)>>)
                /\ UNCHANGED <<pc, req>>
           ELSE /\ seq.asistencias + Cardinality({q \in Procs : pc[q] = "formulario_insert"})
                    <= MaxAsistencias
                /\ pc' = [pc EXCEPT ![p] = "formulario_insert"]
                /\ req' = [req EXCEPT ![p] =
                       [ruta |-> "formulario", form |-> f, fecha_evento |-> fecha_evento]]
                /\ UNCHANGED resp
    /\ UNCHANGED <<USE_POSTGRES, Cuentas, mensaje_limpieza_global, TablasInversiones, asistencias, evaluaciones, programas, modalidades, seq>>

\* variant: every event is evaluated
SiempreEvaluacion(nombre_evento) == TRUE

\* nombre_evento != "Visita de Grupos": the event must be evaluated
RequiereEvaluacion(nombre_evento) == nombre_evento # "Visita de Grupos"

formulario_insert(p) ==
    /\ pc[p] = "formulario_insert"
    /\ LET f == req[p].form
           fecha_evento == req[p].fecha_evento
           clave == <<f.numero_identificacion, f.nombre_evento, fecha_evento>>
       IN  IF ViolaIndiceUnico(asistencias, clave)
           THEN \* IntegrityError, caught by the handler's except Exception
                /\ resp' =
                       Respuesta(p, "formulario", 200, "formulario.html",
                                 "error_al_registrar", <<>>)
                /\ UNCHANGED <<asistencias, seq>>
           ELSE /\ asistencias' = asistencias \cup {Fila(seq.asistencias, f, fecha_evento)}
                /\ seq' = [seq EXCEPT !.asistencias = @ + 1]
                /\ resp' =
                       IF RequiereEvaluacion(f.nombre_evento)
                       THEN Respuesta(p, "formulario", 302, "formulario_evaluacion",
                                      "", seq.asistencias)
                       ELSE Respuesta(p, "formulario", 302, "formulario_success",
                                      "", 0)
    /\ pc' = [pc EXCEPT ![p] = "idle"]
    /\ req' = [req EXCEPT ![p] = NoReq]
    /\ UNCHANGED <<USE_POSTGRES, Cuentas, mensaje_limpieza_global, TablasInversiones, evaluaciones, programas, modalidades>>

(***************************************************************************)
(* /panel/cargar_excel.  One transaction: an INSERT per sheet row, one    *)
(* commit at the end.  On PostgreSQL a failed statement aborts the        *)
(* transaction: every later statement fails with "current transaction is  *)
(* aborted" and the final commit rolls everything back.                    *)
(***************************************************************************)
\* st: nuevas (rows inserted so far in the transaction), next (next id),
\* abortada, registros_insertados, registros_duplicados, otros_errores
RECURSIVE InsertarFilas(_, _, _, _)
InsertarFilas(filas, tabla, postgres, st) ==
    IF filas = <<>> THEN st
    ELSE LET row == Head(filas)
             fecha == StrCelda(row.fecha_evento)
             clave == <<row.numero_identificacion, row.nombre_evento, fecha>>
         IN  IF st.abortada
             THEN InsertarFilas(Tail(filas), tabla, postgres,
                      [st EXCEPT !.otros_errores = @ + 1])
             ELSE IF ViolaIndiceUnico(tabla \cup st.nuevas, clave)
             THEN InsertarFilas(Tail(filas), tabla, postgres,
                      [st EXCEPT !.registros_duplicados = @ + 1,
                                 !.abortada = postgres])
             ELSE InsertarFilas(Tail(filas), tabla, postgres,
                      [st EXCEPT !.nuevas = @ \cup {Fila(st.next, row, fecha)},
                                 !.next = @ + 1,
                                 !.registros_insertados = @ + 1])

\* variant: fecha_evento is not asked of the sheet
ColumnasSinFecha == campos_requeridos

\* the columns a sheet must have
columnas_requeridas == campos_requeridos \o <<"fecha_evento">>

\* [col for col in columnas_requeridas if col not in df.columns]
columnas_faltantes(archivo) ==
    SelectSeq(columnas_requeridas, LAMBDA col : col \notin archivo.columnas)

panel_cargar_excel(p, autenticado, archivo) ==
    /\ pc[p] = "idle"
    /\ IF SinSesion(autenticado)
       THEN /\ resp' =
                   Respuesta(p, "panel_cargar_excel", 302, "login", "", <<>>)
            /\ UNCHANGED <<asistencias, seq>>
       ELSE IF archivo.estado # "ok"
       THEN \* no file, empty filename, wrong extension
            /\ resp' =
                   Respuesta(p, "panel_cargar_excel", 302, "panel", archivo.estado, <<>>)
            /\ UNCHANGED <<asistencias, seq>>
       ELSE IF columnas_faltantes(archivo) # <<>>
       THEN /\ resp' =
                   Respuesta(p, "panel_cargar_excel", 302, "panel", "faltan_columnas",
                             columnas_faltantes(archivo))
            /\ UNCHANGED <<asistencias, seq>>
       ELSE LET st == InsertarFilas(archivo.filas, asistencias, USE_POSTGRES,
                          [nuevas |-> {}, next |-> seq.asistencias,
                           abortada |-> FALSE, registros_insertados |-> 0,
                           registros_duplicados |-> 0, otros_errores |-> 0])
            IN  /\ st.next <= MaxAsistencias + 1
                /\ asistencias' = IF st.abortada THEN asistencias
                                  ELSE asistencias \cup st.nuevas
                /\ seq' = [seq EXCEPT !.asistencias = st.next]
                /\ resp' =
                       Respuesta(p, "panel_cargar_excel", 302, "panel", "",
                                 <<st.registros_insertados, st.registros_duplicados>>)
    /\ UNCHANGED <<USE_POSTGRES, Cuentas, mensaje_limpieza_global, TablasInversiones, evaluaciones, programas, modalidades, pc, req>>

(***************************************************************************)
(* limpiar_datos_antiguos and its route /admin/limpiar_datos_antiguos.    *)
(***************************************************************************)
\* FOREIGN KEY (asistencia_id) REFERENCES asistencias(id): PostgreSQL
\* enforces it; SQLite does not unless PRAGMA foreign_keys is set, and the
\* program never sets it
ForeignKeysEnforced(postgres) == postgres

\* variant: WHERE ... <= ano_inicio
FilasHastaInicio(tabla, ano_inicio) == {r \in tabla : AnoDe(r.fecha_evento) <= ano_inicio}

\* rows of WHERE CAST(SUBSTR(fecha_evento, 1, 4) AS INTEGER) < ano_inicio
FilasAntiguas(tabla, ano_inicio) == {r \in tabla : AnoDe(r.fecha_evento) < ano_inicio}

limpiar_datos_antiguos(tabla, evals, postgres, anos_a_mantener) ==
    LET ano_inicio == get_ventana_anos(anos_a_mantener).ano_inicio
        viejas == FilasAntiguas(tabla, ano_inicio)
        total_a_eliminar == Cardinality(viejas)
    IN  IF total_a_eliminar > 0
        THEN IF /\ ForeignKeysEnforced(postgres)
                /\ \E r \in viejas : \E e \in evals : e.asistencia_id = r.id
             THEN [success |-> FALSE, registros_eliminados |-> 0, tabla |-> tabla]
             ELSE [success |-> TRUE, registros_eliminados |-> total_a_eliminar,
                   tabla |-> tabla \ viejas]
        ELSE [success |-> TRUE, registros_eliminados |-> 0, tabla |-> tabla]

limpiar_datos_route(p, autenticado) ==
    /\ pc[p] = "idle"
    /\ IF SinSesion(autenticado)
       THEN /\ resp' =
                   Respuesta(p, "limpiar_datos_route", 302, "login", "", <<>>)
            /\ UNCHANGED asistencias
       ELSE LET resultado == limpiar_datos_antiguos(asistencias, evaluaciones,
                                                    USE_POSTGRES, 5)
            IN  /\ asistencias' = resultado.tabla
                /\ resp' =
                       Respuesta(p, "limpiar_datos_route", 200, "panel.html",
                                 IF resultado.success THEN "" ELSE "error_al_limpiar",
                                 resultado.registros_eliminados)
    /\ UNCHANGED <<USE_POSTGRES, Cuentas, mensaje_limpieza_global, TablasInversiones, evaluaciones, programas, modalidades, seq, pc, req>>

\* limpiar_datos_antiguos(anos_a_mantener) run by hand or on a schedule, as
\* its docstring provides for; the response carries the dict it returns
limpiar_datos_antiguos_call(p, anos_a_mantener) ==
    /\ pc[p] = "idle"
    /\ LET resultado == limpiar_datos_antiguos(asistencias, evaluaciones,
                                               USE_POSTGRES, anos_a_mantener)
       IN  /\ asistencias' = resultado.tabla
           /\ resp' =
                  Respuesta(p, "limpiar_datos_antiguos", 0, "",
                            IF resultado.success THEN "" ELSE "error_al_limpiar",
                            [registros_eliminados |-> resultado.registros_eliminados,
                             anos_a_mantener |-> anos_a_mantener])
    /\ UNCHANGED <<USE_POSTGRES, Cuentas, mensaje_limpieza_global, TablasInversiones, evaluaciones, programas, modalidades, seq, pc, req>>

(***************************************************************************)
(* /formulario/evaluacion/<id> POST                                        *)
(***************************************************************************)
campos_evaluacion ==
    <<"calidad_contenido", "metodologia", "lenguaje_comprensible",
      "manejo_grupo", "solucion_inquietudes">>

\* str.isdigit() and int() on the rating texts a form can carry; the
\* superscript "²" is a digit for isdigit() and int() raises ValueError on it
EsDigito(valor) == valor \in {"0", "1", "2", "3", "4", "5", "6", "²"}

IntFalla(valor) == valor = "²"

Entero(valor) ==
    CASE valor = "0" -> 0 [] valor = "1" -> 1 [] valor = "2" -> 2
      [] valor = "3" -> 3 [] valor = "4" -> 4 [] valor = "5" -> 5
      [] valor = "6" -> 6 [] valor = "10" -> 10 [] valor = "25" -> 25
      [] valor = "99" -> 99 [] valor = "-1" -> 0 - 1
      [] valor = "2025" -> 2025 [] valor = "2026" -> 2026

\* variant without the upper limit
CalificacionSinMaximo(valor) ==
    \/ valor = ""
    \/ ~EsDigito(valor)
    \/ IntFalla(valor)
    \/ Entero(valor) < 1

\* not valor or not valor.isdigit() or int(valor) < 1 or int(valor) > 5;
\* also true where int(valor) raises, which ends the loop as well
CalificacionInvalida(valor) ==
    \/ valor = ""
    \/ ~EsDigito(valor)
    \/ IntFalla(valor)
    \/ Entero(valor) < 1
    \/ Entero(valor) > 5

\* the field at which the loop over campos_evaluacion stops, 0 when it
\* runs to its end
PrimerCampoInvalido(form) ==
    LET malos == {i \in 1..Len(campos_evaluacion) : CalificacionInvalida(form[i])}
    IN  IF malos = {} THEN 0 ELSE CHOOSE i \in malos : \A j \in malos : i <= j

\* variant without the UNIQUE(asistencia_id) constraint
SinEvaluacionUnica(evals, asistencia_id) == FALSE

\* UNIQUE(asistencia_id) on evaluaciones_capacitaciones
ViolaEvaluacionUnica(evals, asistencia_id) ==
    \E e \in evals : e.asistencia_id = asistencia_id

\* the INSERT is refused by the foreign key
ViolaForeignKey(tabla, postgres, asistencia_id) ==
    /\ ForeignKeysEnforced(postgres)
    /\ ~\E r \in tabla : r.id = asistencia_id

formulario_evaluacion(p, asistencia_id, form) ==
    /\ pc[p] = "idle"
    /\ LET malo == PrimerCampoInvalido(form)
       IN  IF malo # 0 /\ EsDigito(form[malo]) /\ IntFalla(form[malo])
           THEN \* ValueError of int(valor), caught by except Exception
                /\ resp' =
                       Respuesta(p, "formulario_evaluacion", 200, "formulario_evaluacion.html",
                                 "error_al_registrar_evaluacion", asistencia_id)
                /\ UNCHANGED evaluaciones
           ELSE IF malo # 0
           THEN /\ resp' =
                       Respuesta(p, "formulario_evaluacion", 200, "formulario_evaluacion.html",
                                 "valor_entre_1_y_5", campos_evaluacion[malo])
                /\ UNCHANGED evaluaciones
           ELSE IF ViolaEvaluacionUnica(evaluaciones, asistencia_id)
           THEN /\ resp' =
                       Respuesta(p, "formulario_evaluacion", 200, "formulario_evaluacion.html",
                                 "Ya existe una evaluacion para esta asistencia",
                                 asistencia_id)
                /\ UNCHANGED evaluaciones
           ELSE IF ViolaForeignKey(asistencias, USE_POSTGRES, asistencia_id)
           THEN /\ resp' =
                       Respuesta(p, "formulario_evaluacion", 200, "formulario_evaluacion.html",
                                 "error_al_registrar_evaluacion", asistencia_id)
                /\ UNCHANGED evaluaciones
           ELSE /\ evaluaciones' = evaluaciones \cup
                       {[asistencia_id |-> asistencia_id,
                         calificaciones |-> [i \in 1..5 |-> Entero(form[i])]]}
                /\ resp' =
                       Respuesta(p, "formulario_evaluacion", 302, "evaluacion_success",
                                 "", asistencia_id)
    /\ UNCHANGED <<USE_POSTGRES, Cuentas, mensaje_limpieza_global, TablasInversiones, asistencias, programas, modalidades, seq, pc, req>>

(***************************************************************************)
(* Programs and modalities: active-options lists, add, toggle, delete.    *)
(* The delete handlers run two statements, the COUNT of referring         *)
(* attendance rows and the DELETE; asistencias holds the names as plain   *)
(* text, with no foreign key to programas or modalidades.                  *)
(***************************************************************************)
\* the names of the model in ORDER BY nombre ASC order
NombresOrdenados == <<"A Distancia", "Derecho", "Presencial", "Sistemas", "Virtual">>

\* variant without the WHERE activo = 1
NombresTodos(tabla) ==
    SelectSeq(NombresOrdenados, LAMBDA n : \E r \in tabla : r.nombre = n)

\* SELECT nombre FROM <tabla> WHERE activo = 1 ORDER BY nombre ASC
NombresActivos(tabla) ==
    SelectSeq(NombresOrdenados, LAMBDA n : \E r \in tabla : r.nombre = n /\ r.activo = 1)

get_programas_list == NombresActivos(programas)

get_programas_activos == NombresActivos(programas)

api_modalidades_activas == NombresActivos(modalidades)

agregar_programa(p, autenticado, nombre) ==
    /\ pc[p] = "idle"
    /\ IF SinSesion(autenticado)
       THEN /\ resp' = Respuesta(p, "agregar_programa", 401, "", "No autorizado", <<>>)
            /\ UNCHANGED <<programas, seq>>
       ELSE IF nombre = ""
       THEN /\ resp' = Respuesta(p, "agregar_programa", 400, "", "nombre_requerido", 0)
            /\ UNCHANGED <<programas, seq>>
       ELSE IF \E r \in programas : r.nombre = nombre
       THEN \* UNIQUE(nombre)
            /\ resp' = Respuesta(p, "agregar_programa", 400, "", "ya_existe", 0)
            /\ UNCHANGED <<programas, seq>>
       ELSE /\ seq.programas <= MaxCatalogo
            /\ programas' = programas \cup
                   {[id |-> seq.programas, nombre |-> nombre, activo |-> 1]}
            /\ seq' = [seq EXCEPT !.programas = @ + 1]
            /\ resp' = Respuesta(p, "agregar_programa", 200, "", "", seq.programas)
    /\ UNCHANGED <<USE_POSTGRES, Cuentas, mensaje_limpieza_global, TablasInversiones, asistencias, evaluaciones, modalidades, pc, req>>

\* UPDATE <tabla> SET activo = nuevo_estado WHERE id = ?
\* variant: UPDATE ... SET activo = ? without the WHERE
TodosConEstado(tabla, id, nuevo_estado) == {[r EXCEPT !.activo = nuevo_estado] : r \in tabla}

\* UPDATE ... SET activo = ? WHERE id = ?
ConEstado(tabla, id, nuevo_estado) ==
    {IF r.id = id THEN [r EXCEPT !.activo = nuevo_estado] ELSE r : r \in tabla}

\* nuevo_estado = 0 if activo == 1 else 1
NuevoEstado(activo) == IF activo = 1 THEN 0 ELSE 1

toggle_programa(p, autenticado, programa_id) ==
    /\ pc[p] = "idle"
    /\ IF SinSesion(autenticado)
       THEN /\ resp' = Respuesta(p, "toggle_programa", 401, "", "No autorizado", <<>>)
            /\ UNCHANGED programas
       ELSE IF ~\E r \in programas : r.id = programa_id
       THEN /\ resp' = Respuesta(p, "toggle_programa", 404, "", "no_encontrado", 0)
            /\ UNCHANGED programas
       ELSE LET programa == CHOOSE r \in programas : r.id = programa_id
                nuevo_estado == NuevoEstado(programa.activo)
            IN  /\ programas' = ConEstado(programas, programa_id, nuevo_estado)
                /\ resp' = Respuesta(p, "toggle_programa", 200, "", "", nuevo_estado)
    /\ UNCHANGED <<USE_POSTGRES, Cuentas, mensaje_limpieza_global, TablasInversiones, asistencias, evaluaciones, modalidades, seq, pc, req>>

api_toggle_modalidad(p, autenticado, modalidad_id) ==
    /\ pc[p] = "idle"
    /\ IF SinSesion(autenticado)
       THEN /\ resp' = Respuesta(p, "api_toggle_modalidad", 401, "", "No autorizado", <<>>)
            /\ UNCHANGED modalidades
       ELSE IF ~\E r \in modalidades : r.id = modalidad_id
       THEN /\ resp' = Respuesta(p, "api_toggle_modalidad", 404, "", "no_encontrada", 0)
            /\ UNCHANGED modalidades
       ELSE LET row == CHOOSE r \in modalidades : r.id = modalidad_id
                nuevo_estado == NuevoEstado(row.activo)
            IN  /\ modalidades' = ConEstado(modalidades, modalidad_id, nuevo_estado)
                /\ resp' = Respuesta(p, "api_toggle_modalidad", 200, "", "", nuevo_estado)
    /\ UNCHANGED <<USE_POSTGRES, Cuentas, mensaje_limpieza_global, TablasInversiones, asistencias, evaluaciones, programas, seq, pc, req>>

\* variant: only programa_estudiante is looked at
ContarSoloEstudiante(tabla, progs, programa_id) ==
    LET nombres == {r.nombre : r \in {x \in progs : x.id = programa_id}}
    IN  Cardinality({a \in tabla : a.programa_estudiante \in nombres})

\* SELECT COUNT(*) FROM asistencias WHERE programa_estudiante IN (SELECT
\* nombre FROM programas WHERE id = ?) OR programa_docente IN (SELECT ...)
ContarReferenciasPrograma(tabla, progs, programa_id) ==
    LET nombres == {r.nombre : r \in {x \in progs : x.id = programa_id}}
    IN  Cardinality({a \in tabla : \/ a.programa_estudiante \in nombres
                                   \/ a.programa_docente \in nombres})

eliminar_programa_check(p, autenticado, programa_id) ==
    /\ pc[p] = "idle"
    /\ IF SinSesion(autenticado)
       THEN /\ resp' = Respuesta(p, "eliminar_programa", 401, "", "No autorizado", <<>>)
            /\ UNCHANGED <<pc, req>>
       ELSE LET count == ContarReferenciasPrograma(asistencias, programas, programa_id)
            IN  IF count > 0
                THEN /\ resp' = Respuesta(p, "eliminar_programa", 400, "",
                                          "tiene_registros_asociados", count)
                     /\ UNCHANGED <<pc, req>>
                ELSE /\ pc' = [pc EXCEPT ![p] = "eliminar_programa_delete"]
                     /\ req' = [req EXCEPT ![p] =
                            [ruta |-> "eliminar_programa", id |-> programa_id]]
                     /\ UNCHANGED resp
    /\ UNCHANGED <<USE_POSTGRES, Cuentas, mensaje_limpieza_global, TablasInversiones, asistencias, evaluaciones, programas, modalidades, seq>>

\* DELETE FROM <tabla> WHERE id = ?
SinId(tabla, id) == {r \in tabla : r.id # id}

eliminar_programa_delete(p) ==
    /\ pc[p] = "eliminar_programa_delete"
    /\ programas' = SinId(programas, req[p].id)
    /\ resp' = Respuesta(p, "eliminar_programa", 200, "", "", req[p].id)
    /\ pc' = [pc EXCEPT ![p] = "idle"]
    /\ req' = [req EXCEPT ![p] = NoReq]
    /\ UNCHANGED <<USE_POSTGRES, Cuentas, mensaje_limpieza_global, TablasInversiones, asistencias, evaluaciones, modalidades, seq>>

\* SELECT COUNT(*) FROM asistencias WHERE modalidad = (SELECT nombre FROM
\* modalidades WHERE id = ?)
ContarReferenciasModalidad(tabla, mods, modalidad_id) ==
    LET nombres == {r.nombre : r \in {x \in mods : x.id = modalidad_id}}
    IN  Cardinality({a \in tabla : a.modalidad \in nombres})

api_eliminar_modalidad_check(p, autenticado, modalidad_id) ==
    /\ pc[p] = "idle"
    /\ IF SinSesion(autenticado)
       THEN /\ resp' = Respuesta(p, "api_eliminar_modalidad", 401, "", "No autorizado", <<>>)
            /\ UNCHANGED <<pc, req>>
       ELSE LET count == ContarReferenciasModalidad(asistencias, modalidades, modalidad_id)
            IN  IF count > 0
                THEN /\ resp' = Respuesta(p, "api_eliminar_modalidad", 400, "",
                                          "hay_registros_usando", count)
                     /\ UNCHANGED <<pc, req>>
                ELSE /\ pc' = [pc EXCEPT ![p] = "api_eliminar_modalidad_delete"]
                     /\ req' = [req EXCEPT ![p] =
                            [ruta |-> "api_eliminar_modalidad", id |-> modalidad_id]]
                     /\ UNCHANGED resp
    /\ UNCHANGED <<USE_POSTGRES, Cuentas, mensaje_limpieza_global, TablasInversiones, asistencias, evaluaciones, programas, modalidades, seq>>

api_eliminar_modalidad_delete(p) ==
    /\ pc[p] = "api_eliminar_modalidad_delete"
    /\ modalidades' = SinId(modalidades, req[p].id)
    /\ resp' = Respuesta(p, "api_eliminar_modalidad", 200, "", "", req[p].id)
    /\ pc' = [pc EXCEPT ![p] = "idle"]
    /\ req' = [req EXCEPT ![p] = NoReq]
    /\ UNCHANGED <<USE_POSTGRES, Cuentas, mensaje_limpieza_global, TablasInversiones, asistencias, evaluaciones, programas, seq>>

(***************************************************************************)
(* /estadisticas: the WHERE clause built from the filters, then the       *)
(* aggregates the page shows.                                              *)
(***************************************************************************)
\* variant: the window is applied whatever the date bounds
AplicaVentanaSiempre(fecha_inicio, fecha_fin) == TRUE

\* if not fecha_inicio and not fecha_fin: the 5-year window is applied
AplicaVentana(fecha_inicio, fecha_fin) == fecha_inicio = <<>> /\ fecha_fin = <<>>

\* the rows the WHERE clause (where_sql) keeps
FilasFiltradas(tabla, filtros) ==
    LET ventana == get_ventana_anos(5)
    IN  {r \in tabla :
           /\ AplicaVentana(filtros.fecha_inicio, filtros.fecha_fin)
                => /\ AnoDe(r.fecha_evento) >= ventana.ano_inicio
                   /\ AnoDe(r.fecha_evento) <= ventana.ano_fin
           /\ filtros.evento # "" => r.nombre_evento = filtros.evento
           /\ filtros.programa # "" => r.programa_estudiante = filtros.programa
           /\ filtros.fecha_inicio # <<>> => FechaLeq(filtros.fecha_inicio, r.fecha_evento)
           /\ filtros.fecha_fin # <<>> => FechaLeq(r.fecha_evento, filtros.fecha_fin)}

\* LIMIT 15 of the per-event breakdown
LimiteEventos == 15

\* variant: COUNT(DISTINCT numero_identificacion)
ConteoPersonasPorEvento(filas) ==
    [e \in {r.nombre_evento : r \in filas} |->
        Cardinality({r.numero_identificacion : r \in {x \in filas : x.nombre_evento = e}})]

\* SELECT nombre_evento, COUNT(*) ... GROUP BY nombre_evento
ConteoPorEvento(filas) ==
    [e \in {r.nombre_evento : r \in filas} |->
        Cardinality({r \in filas : r.nombre_evento = e})]

\* ORDER BY total_asistencias DESC LIMIT n: the counts, largest first
RECURSIVE ValoresDesc(_, _, _)
ValoresDesc(conteo, eventos, n) ==
    IF n = 0 \/ eventos = {} THEN <<>>
    ELSE LET e == CHOOSE x \in eventos : \A y \in eventos : conteo[x] >= conteo[y]
         IN  <<conteo[e]>> \o ValoresDesc(conteo, eventos \ {e}, n - 1)

EventosValores(filas) ==
    LET conteo == ConteoPorEvento(filas)
    IN  ValoresDesc(conteo, DOMAIN conteo, LimiteEventos)

\* WHERE ranking <= 5
LimiteTop == 5

\* COUNT(*) of GROUP BY nombre_evento, programa_estudiante, for one event
ConteoPorPrograma(filas, evento) ==
    [pr \in {r.programa_estudiante : r \in {q \in filas : q.nombre_evento = evento}} |->
        Cardinality({r \in filas : r.nombre_evento = evento /\ r.programa_estudiante = pr})]

\* variant: ORDER BY COUNT(*) ASC
RECURSIVE NumeracionesAsc(_, _)
NumeracionesAsc(conteo, restantes) ==
    IF restantes = {} THEN {<<>>}
    ELSE UNION {{<<x>> \o o : o \in NumeracionesAsc(conteo, restantes \ {x})} :
                  x \in {y \in restantes : \A z \in restantes : conteo[y] <= conteo[z]}}

\* the numberings ROW_NUMBER() OVER (PARTITION BY nombre_evento ORDER BY
\* COUNT(*) DESC) can give to the programs of one event: programs with equal
\* counts come in any order
RECURSIVE Numeraciones(_, _)
Numeraciones(conteo, restantes) ==
    IF restantes = {} THEN {<<>>}
    ELSE UNION {{<<x>> \o o : o \in Numeraciones(conteo, restantes \ {x})} :
                  x \in {y \in restantes : \A z \in restantes : conteo[y] >= conteo[z]}}

\* the rows of one event that pass WHERE ranking <= 5, in ORDER BY ranking,
\* as the dictionaries the handler appends
TopsDeEvento(filas, evento) ==
    LET conteo == ConteoPorPrograma(filas, evento)
    IN  {[i \in 1..(IF Len(o) <= LimiteTop THEN Len(o) ELSE LimiteTop) |->
             [programa |-> o[i], total |-> conteo[o[i]], ranking |-> i]] :
            o \in Numeraciones(conteo, DOMAIN conteo)}

\* the values top_por_evento can take: one list for each event of the rows
RECURSIVE TopsPorEvento(_, _)
TopsPorEvento(filas, eventos) ==
    IF eventos = {} THEN {<<>>}
    ELSE LET e == CHOOSE x \in eventos : TRUE
         IN  {(e :> t) @@ resto : t \in TopsDeEvento(filas, e),
                                  resto \in TopsPorEvento(filas, eventos \ {e})}

estadisticas(p, autenticado, filtros) ==
    /\ pc[p] = "idle"
    /\ IF SinSesion(autenticado)
       THEN resp' = Respuesta(p, "estadisticas", 302, "login", "", <<>>)
       ELSE LET filas == FilasFiltradas(asistencias, filtros)
                eventos_valores == EventosValores(filas)
            IN  IF eventos_valores = <<>>
                THEN \* df_eventos.empty
                     resp' = Respuesta(p, "estadisticas", 200, "estadisticas_avanzadas.html",
                                       "sin_datos", [filtros |-> filtros])
                ELSE \E top_por_evento \in
                            TopsPorEvento(filas, {r.nombre_evento : r \in filas}) :
                     resp' = Respuesta(p, "estadisticas", 200, "estadisticas_avanzadas.html",
                                       "",
                                       [filtros |-> filtros,
                                        top_por_evento |-> top_por_evento,
                                        filas |-> filas,
                                        total_asistencias |-> Cardinality(filas),
                                        total_eventos |->
                                            Cardinality({r.nombre_evento : r \in filas}),
                                        total_programas |->
                                            Cardinality({r.programa_estudiante : r \in filas}),
                                        eventos_valores |-> eventos_valores])
    /\ UNCHANGED <<USE_POSTGRES, Cuentas, mensaje_limpieza_global, TablasInversiones, asistencias, evaluaciones, programas, modalidades,
                   seq, pc, req>>

(***************************************************************************)
(* /api/asistencias and /exportar                                          *)
(***************************************************************************)
col_names ==
    <<"nombre_evento", "dictado_por", "docente", "programa_docente",
      "numero_identificacion", "nombre_completo", "programa_estudiante",
      "modalidad", "tipo_asistente", "sede", "fecha_evento">>

\* the texts of a request argument for which int() returns
EsEntero(valor) ==
    valor \in {"0", "1", "2", "3", "6", "10", "25", "99", "-1", "2025", "2026"}

\* the stored text of a column of a row
ValorColumna(r, c) ==
    IF c = "fecha_evento" THEN TextoFecha(r.fecha_evento) ELSE Letras(r[c])

\* LOWER() of SQLite: the letters A to Z only
MinusculaAscii(c) ==
    IF EnSecuencia(MayusculasAscii, c) THEN MinusculasAscii[Posicion(MayusculasAscii, c)]
    ELSE c

\* REPLACE(REPLACE(REPLACE(REPLACE(REPLACE(col, 'á','a'), 'é','e'), 'í','i'),
\* 'ó','o'), 'ú','u')
ReemplazaAcentos(c) ==
    IF c \in {"á", "é", "í", "ó", "ú"} THEN LetrasBase[Posicion(MinusculasAcentuadas, c)]
    ELSE c

\* the left side of LIKE: LOWER(REPLACE(...)) on PostgreSQL, whose LOWER
\* knows every letter, LOWER(col) on SQLite
ColumnaSql(postgres, letras) ==
    IF postgres
    THEN [i \in 1..Len(letras) |-> MinusculaUnicode(ReemplazaAcentos(letras[i]))]
    ELSE [i \in 1..Len(letras) |-> MinusculaAscii(letras[i])]

\* texto LIKE '%sub%'
Contiene(texto, sub) ==
    \E i \in 0..(Len(texto) - Len(sub)) : SubSeq(texto, i + 1, i + Len(sub)) = sub

\* where_clause on one row: the global search on any column, and every
\* non-empty column filter on its column
CumpleWhere(r, postgres, search_val, col_filters) ==
    /\ \/ search_val = ""
       \/ \E i \in 1..Len(col_names) :
              Contiene(ColumnaSql(postgres, ValorColumna(r, col_names[i])),
                       normalize_text(Letras(search_val)))
    /\ \A i \in 1..Len(col_names) :
           \/ col_filters[i] = ""
           \/ Contiene(ColumnaSql(postgres, ValorColumna(r, col_names[i])),
                       normalize_text(Letras(col_filters[i])))

FilasWhere(tabla, postgres, search_val, col_filters) ==
    {r \in tabla : CumpleWhere(r, postgres, search_val, col_filters)}

\* col_names[order_col_idx] if 0 <= order_col_idx < len(col_names) else
\* 'fecha_evento'
OrderCol(order_col_idx) ==
    IF 0 <= order_col_idx /\ order_col_idx < Len(col_names)
    THEN col_names[order_col_idx + 1]
    ELSE "fecha_evento"

\* variant: any direction but 'asc' is kept as it is
OrderDirSinValidar(order_dir) == order_dir

\* if order_dir not in ('asc', 'desc'): order_dir = 'desc'
OrderDir(order_dir) == IF order_dir \in {"asc", "desc"} THEN order_dir ELSE "desc"

\* a <= b for two texts compared character by character, by code point
TextoLeq(a, b) ==
    LET n == IF Len(a) <= Len(b) THEN Len(a) ELSE Len(b)
        dif == {i \in 1..n : a[i] # b[i]}
    IN  IF dif = {} THEN Len(a) <= Len(b)
        ELSE LET i == CHOOSE k \in dif : \A j \in dif : k <= j
             IN  Posicion(Alfabeto, a[i]) < Posicion(Alfabeto, b[i])

\* ORDER BY order_col order_dir: every order of the rows the clause allows,
\* rows with equal values in any order
Ordenes(filas, order_col, order_dir) ==
    LET n == Cardinality(filas)
    IN  {o \in [1..n -> filas] :
            /\ \A i, j \in 1..n : i # j => o[i] # o[j]
            /\ \A i \in 1..(n - 1) :
                   IF order_dir = "asc"
                   THEN TextoLeq(ValorColumna(o[i], order_col),
                                 ValorColumna(o[i + 1], order_col))
                   ELSE TextoLeq(ValorColumna(o[i + 1], order_col),
                                 ValorColumna(o[i], order_col))}

\* LIMIT length OFFSET start on SQLite: a negative length is no limit, a
\* negative start is 0
Pagina(orden, start, length) ==
    LET desde == IF start < 0 THEN 0 ELSE start
        hasta == IF length < 0 \/ desde + length > Len(orden) THEN Len(orden)
                 ELSE desde + length
    IN  SubSeq(orden, desde + 1, hasta)

\* the eleven columns of a row, programa_docente and programa_estudiante
\* through get_programas_map, which maps each name to itself
FilaDatos(r) == [i \in 1..Len(col_names) |-> r[col_names[i]]]

\* the arguments of a request for which the handler raises: int() on a text
\* that is no number, and on PostgreSQL a negative LIMIT or OFFSET
ApiAsistenciasFalla(postgres, params) ==
    \/ ~EsEntero(params.draw)
    \/ ~EsEntero(params.start)
    \/ ~EsEntero(params.length)
    \/ ~EsEntero(params.order_column)
    \/ postgres /\ (Entero(params.start) < 0 \/ Entero(params.length) < 0)

api_asistencias(p, autenticado, params) ==
    /\ pc[p] = "idle"
    /\ IF SinSesion(autenticado)
       THEN resp' = Respuesta(p, "api_asistencias", 401, "", "No autorizado", <<>>)
       ELSE IF ApiAsistenciasFalla(USE_POSTGRES, params)
       THEN resp' = Respuesta(p, "api_asistencias", 500, "", "error",
                              [params |-> params, draw |-> 1, recordsTotal |-> 0,
                               recordsFiltered |-> 0, data |-> <<>>])
       ELSE LET filas == FilasWhere(asistencias, USE_POSTGRES, params.search,
                                    params.col_filters)
                order_col == OrderCol(Entero(params.order_column))
                order_dir == OrderDir(params.order_dir)
            IN  \E orden \in Ordenes(filas, order_col, order_dir) :
                    LET rows == Pagina(orden, Entero(params.start), Entero(params.length))
                    IN  resp' = Respuesta(p, "api_asistencias", 200, "", "",
                                    [params |-> params,
                                     order_col |-> order_col,
                                     order_dir |-> order_dir,
                                     draw |-> Entero(params.draw),
                                     recordsTotal |-> Cardinality(asistencias),
                                     recordsFiltered |-> Cardinality(filas),
                                     data |-> [i \in DOMAIN rows |-> FilaDatos(rows[i])]])
    /\ UNCHANGED <<USE_POSTGRES, Cuentas, mensaje_limpieza_global, TablasInversiones, asistencias, evaluaciones, programas, modalidades,
                   seq, pc, req>>

\* the rows of the spreadsheet are the whole result, draw, start and length
\* are not read; int(order_column) is inside its own try
exportar(p, autenticado, params) ==
    /\ pc[p] = "idle"
    /\ IF SinSesion(autenticado)
       THEN resp' = Respuesta(p, "exportar", 302, "login", "", <<>>)
       ELSE LET filas == FilasWhere(asistencias, USE_POSTGRES, params.search,
                                    params.col_filters)
                order_col == IF EsEntero(params.order_column)
                             THEN OrderCol(Entero(params.order_column))
                             ELSE "fecha_evento"
                order_dir == OrderDir(params.order_dir)
            IN  IF filas = {}
                THEN \* df.empty
                     resp' = Respuesta(p, "exportar", 400, "", "no_hay_datos",
                                       [params |-> params])
                ELSE \E orden \in Ordenes(filas, order_col, order_dir) :
                         resp' = Respuesta(p, "exportar", 200, "asistencias_filtradas.xlsx", "",
                                     [params |-> params,
                                      order_col |-> order_col,
                                      order_dir |-> order_dir,
                                      data |-> [i \in DOMAIN orden |-> FilaDatos(orden[i])]])
    /\ UNCHANGED <<USE_POSTGRES, Cuentas, mensaje_limpieza_global, TablasInversiones, asistencias, evaluaciones, programas, modalidades,
                   seq, pc, req>>

(***************************************************************************)
(* /panel, /api/stats/asistencias, /programas, /api/modalidades/agregar    *)
(***************************************************************************)
\* the modalities init_db inserts into an empty table
modalidades_default == <<"Presencial", "A Distancia", "Virtual">>

\* if mensaje_limpieza_global and not success
HayMensajePendiente(mensaje, success) == mensaje # <<>> /\ success = ""

\* the session check and the test of the pending message; without a
\* pending message the page is rendered with the success text of the request
panel(p, autenticado, success) ==
    /\ pc[p] = "idle"
    /\ IF SinSesion(autenticado)
       THEN /\ resp' = Respuesta(p, "panel", 302, "login", "", <<>>)
            /\ UNCHANGED <<pc, req>>
       ELSE IF HayMensajePendiente(mensaje_limpieza_global, success)
       THEN /\ pc' = [pc EXCEPT ![p] = "panel_mensaje"]
            /\ req' = [req EXCEPT ![p] = [ruta |-> "panel", success |-> <<>>]]
            /\ UNCHANGED resp
       ELSE /\ resp' = Respuesta(p, "panel", 200, "panel.html", "",
                                 [total_registros |-> Cardinality(asistencias),
                                  success |-> IF success = "" THEN <<>> ELSE <<success>>])
            /\ UNCHANGED <<pc, req>>
    /\ UNCHANGED <<USE_POSTGRES, Cuentas, mensaje_limpieza_global, TablasInversiones,
                   asistencias, evaluaciones, programas, modalidades, seq>>

\* success = f"... {mensaje_limpieza_global}": the global is read again, and
\* is None when another request has cleared it since the test
panel_mensaje(p) ==
    /\ pc[p] = "panel_mensaje"
    /\ req' = [req EXCEPT ![p].success = <<"aviso", mensaje_limpieza_global>>]
    /\ pc' = [pc EXCEPT ![p] = "panel_limpiar"]
    /\ UNCHANGED <<USE_POSTGRES, Cuentas, mensaje_limpieza_global, TablasInversiones,
                   asistencias, evaluaciones, programas, modalidades, seq, resp>>

\* mensaje_limpieza_global = None, then the count and the page
panel_limpiar(p) ==
    /\ pc[p] = "panel_limpiar"
    /\ mensaje_limpieza_global' = <<>>
    /\ resp' = Respuesta(p, "panel", 200, "panel.html", "",
                         [total_registros |-> Cardinality(asistencias),
                          success |-> req[p].success])
    /\ pc' = [pc EXCEPT ![p] = "idle"]
    /\ req' = [req EXCEPT ![p] = NoReq]
    /\ UNCHANGED <<USE_POSTGRES, Cuentas, TablasInversiones, asistencias, evaluaciones,
                   programas, modalidades, seq>>

api_stats_asistencias(p, autenticado) ==
    /\ pc[p] = "idle"
    /\ IF SinSesion(autenticado)
       THEN resp' = Respuesta(p, "api_stats_asistencias", 401, "", "No autorizado", <<>>)
       ELSE resp' = Respuesta(p, "api_stats_asistencias", 200, "", "",
                        [eventos |-> Cardinality({r.nombre_evento : r \in asistencias}),
                         programas |-> Cardinality({r.programa_estudiante : r \in asistencias}),
                         sedes |-> Cardinality({r.sede : r \in asistencias})])
    /\ UNCHANGED <<USE_POSTGRES, Cuentas, mensaje_limpieza_global, TablasInversiones, asistencias, evaluaciones, programas,
                   modalidades, seq, pc, req>>

gestion_programas(p, autenticado) ==
    /\ pc[p] = "idle"
    /\ IF SinSesion(autenticado)
       THEN resp' = Respuesta(p, "gestion_programas", 302, "login", "", <<>>)
       ELSE resp' = Respuesta(p, "gestion_programas", 200, "gestion_programas.html", "",
                              [programas |-> programas, modalidades |-> modalidades])
    /\ UNCHANGED <<USE_POSTGRES, Cuentas, mensaje_limpieza_global, TablasInversiones, asistencias, evaluaciones, programas,
                   modalidades, seq, pc, req>>

api_agregar_modalidad(p, autenticado, nombre) ==
    /\ pc[p] = "idle"
    /\ IF SinSesion(autenticado)
       THEN /\ resp' = Respuesta(p, "api_agregar_modalidad", 401, "", "No autorizado", <<>>)
            /\ UNCHANGED <<modalidades, seq>>
       ELSE IF nombre = ""
       THEN /\ resp' = Respuesta(p, "api_agregar_modalidad", 400, "", "nombre_requerido", 0)
            /\ UNCHANGED <<modalidades, seq>>
       ELSE IF \E r \in modalidades : r.nombre = nombre
       THEN \* UNIQUE(nombre)
            /\ resp' = Respuesta(p, "api_agregar_modalidad", 400, "", "ya_existe", 0)
            /\ UNCHANGED <<modalidades, seq>>
       ELSE /\ seq.modalidades <= Len(modalidades_default) + MaxCatalogo
            /\ modalidades' = modalidades \cup
                   {[id |-> seq.modalidades, nombre |-> nombre, activo |-> 1]}
            /\ seq' = [seq EXCEPT !.modalidades = @ + 1]
            /\ resp' = Respuesta(p, "api_agregar_modalidad", 200, "", "", seq.modalidades)
    /\ UNCHANGED <<USE_POSTGRES, Cuentas, mensaje_limpieza_global, TablasInversiones, asistencias, evaluaciones, programas, pc, req>>

(***************************************************************************)
(* /inversiones and the routes below it                                    *)
(***************************************************************************)
\* variants without the constraint
SinUnicoAno(tabla, ano) == FALSE

SinUnicoAnoPrograma(tabla, ano, programa) == FALSE

\* UNIQUE(año): the INSERT would give the year a second row
ViolaUnicoAno(tabla, ano) == \E r \in tabla : r.ano = ano

\* UNIQUE(año, programa)
ViolaUnicoAnoPrograma(tabla, ano, programa) ==
    \E r \in tabla : r.ano = ano /\ r.programa = programa

inversiones(p, autenticado) ==
    /\ pc[p] = "idle"
    /\ IF SinSesion(autenticado)
       THEN resp' = Respuesta(p, "inversiones", 302, "login", "", <<>>)
       ELSE resp' = Respuesta(p, "inversiones", 200, "inversiones_home.html", "", 0)
    /\ UNCHANGED <<USE_POSTGRES, Cuentas, mensaje_limpieza_global, TablasInversiones, asistencias, evaluaciones, programas,
                   modalidades, seq, pc, req>>

inversiones_institucional(p, autenticado) ==
    /\ pc[p] = "idle"
    /\ IF SinSesion(autenticado)
       THEN resp' = Respuesta(p, "inversiones_institucional", 302, "login", "", <<>>)
       ELSE resp' = Respuesta(p, "inversiones_institucional", 200,
                              "inversiones_institucional.html", "",
                              [datos |-> inversiones_institucionales])
    /\ UNCHANGED <<USE_POSTGRES, Cuentas, mensaje_limpieza_global, TablasInversiones, asistencias, evaluaciones, programas,
                   modalidades, seq, pc, req>>

\* the amounts of a form are whole numbers here; total is the generated column
inversiones_institucional_registrar(p, autenticado, metodo, form) ==
    /\ pc[p] = "idle"
    /\ IF SinSesion(autenticado)
       THEN /\ resp' = Respuesta(p, "inversiones_institucional_registrar", 302, "login", "",
                                 <<>>)
            /\ UNCHANGED inversiones_institucionales
       ELSE IF metodo # "POST"
       THEN /\ resp' = Respuesta(p, "inversiones_institucional_registrar", 200,
                                 "inversiones_institucional_form.html", "", 0)
            /\ UNCHANGED inversiones_institucionales
       ELSE IF form.ano = ""
       THEN /\ resp' = Respuesta(p, "inversiones_institucional_registrar", 200,
                                 "inversiones_institucional_form.html", "ano_requerido", 0)
            /\ UNCHANGED inversiones_institucionales
       ELSE IF ~EsEntero(form.ano) \/ ~EsEntero(form.monto_libros)
       THEN \* int() or float() raises
            /\ resp' = Respuesta(p, "inversiones_institucional_registrar", 200,
                                 "inversiones_institucional_form.html", "error_al_registrar", 0)
            /\ UNCHANGED inversiones_institucionales
       ELSE IF ViolaUnicoAno(inversiones_institucionales, Entero(form.ano))
       THEN
            /\ resp' = Respuesta(p, "inversiones_institucional_registrar", 200,
                                 "inversiones_institucional_form.html", "ya_existe", 0)
            /\ UNCHANGED inversiones_institucionales
       ELSE /\ inversiones_institucionales' = inversiones_institucionales \cup
                   {[ano |-> Entero(form.ano),
                     monto_libros |-> Entero(form.monto_libros),
                     monto_revistas |-> 0,
                     monto_bases_datos |-> 0,
                     total |-> Entero(form.monto_libros)]}
            /\ resp' = Respuesta(p, "inversiones_institucional_registrar", 302,
                                 "inversiones_institucional", "", 0)
    /\ UNCHANGED <<USE_POSTGRES, Cuentas, mensaje_limpieza_global, inversiones_programas, asistencias, evaluaciones, programas,
                   modalidades, seq, pc, req>>

\* GET /inversiones/programas
inversiones_programas_panel(p, autenticado) ==
    /\ pc[p] = "idle"
    /\ IF SinSesion(autenticado)
       THEN resp' = Respuesta(p, "inversiones_programas", 302, "login", "", <<>>)
       ELSE resp' = Respuesta(p, "inversiones_programas", 200, "inversiones_programas.html",
                              "", [datos |-> inversiones_programas])
    /\ UNCHANGED <<USE_POSTGRES, Cuentas, mensaje_limpieza_global, TablasInversiones, asistencias, evaluaciones, programas,
                   modalidades, seq, pc, req>>

\* the counts are converted before the year and the program are looked at
inversiones_programas_registrar(p, autenticado, metodo, form) ==
    /\ pc[p] = "idle"
    /\ IF SinSesion(autenticado)
       THEN /\ resp' = Respuesta(p, "inversiones_programas_registrar", 302, "login", "", <<>>)
            /\ UNCHANGED inversiones_programas
       ELSE IF metodo # "POST"
       THEN /\ resp' = Respuesta(p, "inversiones_programas_registrar", 200,
                                 "inversiones_programas_form.html", "", 0)
            /\ UNCHANGED inversiones_programas
       ELSE IF ~EsEntero(form.libros_titulos)
       THEN /\ resp' = Respuesta(p, "inversiones_programas_registrar", 200,
                                 "inversiones_programas_form.html", "error_al_registrar", 0)
            /\ UNCHANGED inversiones_programas
       ELSE IF form.ano = "" \/ form.programa = ""
       THEN /\ resp' = Respuesta(p, "inversiones_programas_registrar", 200,
                                 "inversiones_programas_form.html", "ano_y_programa_requeridos",
                                 0)
            /\ UNCHANGED inversiones_programas
       ELSE IF ~EsEntero(form.ano)
       THEN /\ resp' = Respuesta(p, "inversiones_programas_registrar", 200,
                                 "inversiones_programas_form.html", "error_al_registrar", 0)
            /\ UNCHANGED inversiones_programas
       ELSE IF ViolaUnicoAnoPrograma(inversiones_programas, Entero(form.ano), form.programa)
       THEN
            /\ resp' = Respuesta(p, "inversiones_programas_registrar", 200,
                                 "inversiones_programas_form.html", "ya_existe", 0)
            /\ UNCHANGED inversiones_programas
       ELSE /\ inversiones_programas' = inversiones_programas \cup
                   {[ano |-> Entero(form.ano), programa |-> form.programa,
                     libros_titulos |-> Entero(form.libros_titulos)]}
            /\ resp' = Respuesta(p, "inversiones_programas_registrar", 302,
                                 "inversiones_programas", "", 0)
    /\ UNCHANGED <<USE_POSTGRES, Cuentas, mensaje_limpieza_global, inversiones_institucionales, asistencias, evaluaciones,
                   programas, modalidades, seq, pc, req>>

(***************************************************************************)
(* /login, /logout, /dashboard, /registro                                  *)
(***************************************************************************)
\* str.strip() on the texts a form can carry
Strip(texto) ==
    CASE texto = " admin1 " -> "admin1"
      [] texto = " bibliotecario" -> "bibliotecario"
      [] texto = "  " -> ""
      [] OTHER -> texto

\* the salts generate_password_hash draws from
Sales == {1, 2}

\* generate_password_hash(clave): the salt and the digest of salt and password
generate_password_hash(clave, sal) == [sal |-> sal, resumen |-> <<sal, clave>>]

\* variant: any password is taken
ClaveSinVerificar(hash, clave) == TRUE

\* check_password_hash(hash, clave): the digest of the stored salt and clave
\* is the stored digest
check_password_hash(hash, clave) == hash.resumen = <<hash.sal, clave>>

\* variant without the constraint
SinUnicoUsuario(tabla, usuario) == FALSE

\* username TEXT UNIQUE: the INSERT would give the name a second row
ViolaUnicoUsuario(tabla, usuario) == \E r \in tabla : r.username = usuario

registro(p, metodo, username, password) ==
    /\ pc[p] = "idle"
    /\ LET usuario == Strip(username)
           peticion == [metodo |-> metodo, username |-> username, password |-> password]
       IN  IF metodo # "POST"
           THEN /\ resp' = Respuesta(p, "registro", 200, "registro.html", "", peticion)
                /\ UNCHANGED usuarios
           ELSE IF usuario = "" \/ password = ""
           THEN /\ resp' = Respuesta(p, "registro", 200, "registro.html",
                                     "completa_todos_los_campos", peticion)
                /\ UNCHANGED usuarios
           ELSE IF Len(usuario) < 7
           THEN /\ resp' = Respuesta(p, "registro", 200, "registro.html", "usuario_corto", peticion)
                /\ UNCHANGED usuarios
           ELSE IF Len(password) < 8
           THEN /\ resp' = Respuesta(p, "registro", 200, "registro.html", "clave_corta", peticion)
                /\ UNCHANGED usuarios
           ELSE IF ViolaUnicoUsuario(usuarios, usuario)
           THEN /\ resp' = Respuesta(p, "registro", 200, "registro.html",
                                     "el_usuario_ya_existe", peticion)
                /\ UNCHANGED usuarios
           ELSE /\ \E sal \in Sales :
                       usuarios' = usuarios \cup
                           {[username |-> usuario,
                             password |-> generate_password_hash(password, sal)]}
                /\ resp' = Respuesta(p, "registro", 302, "login", "", peticion)
    /\ UNCHANGED <<USE_POSTGRES, session, mensaje_limpieza_global, TablasInversiones,
                   asistencias, evaluaciones, programas, modalidades, seq, pc, req>>

login(p, metodo, username, password) ==
    /\ pc[p] = "idle"
    /\ LET usuario == Strip(username)
           peticion == [metodo |-> metodo, username |-> username, password |-> password]
       IN  IF metodo # "POST"
           THEN /\ resp' = Respuesta(p, "login", 200, "login.html", "", peticion)
                /\ UNCHANGED session
           ELSE IF usuario = "" \/ password = ""
           THEN /\ resp' = Respuesta(p, "login", 200, "login.html",
                                     "completa_todos_los_campos", peticion)
                /\ UNCHANGED session
           ELSE IF \E user \in usuarios :
                       /\ user.username = usuario
                       /\ check_password_hash(user.password, password)
           THEN /\ session' = usuario
                /\ resp' = Respuesta(p, "login", 302, "dashboard", "", peticion)
           ELSE /\ resp' = Respuesta(p, "login", 200, "login.html",
                                     "usuario_o_clave_incorrectos", peticion)
                /\ UNCHANGED session
    /\ UNCHANGED <<USE_POSTGRES, usuarios, mensaje_limpieza_global, TablasInversiones,
                   asistencias, evaluaciones, programas, modalidades, seq, pc, req>>

\* session.clear()
logout(p) ==
    /\ pc[p] = "idle"
    /\ session' = ""
    /\ resp' = Respuesta(p, "logout", 302, "login", "", <<>>)
    /\ UNCHANGED <<USE_POSTGRES, usuarios, mensaje_limpieza_global, TablasInversiones,
                   asistencias, evaluaciones, programas, modalidades, seq, pc, req>>

dashboard(p, autenticado) ==
    /\ pc[p] = "idle"
    /\ IF SinSesion(autenticado)
       THEN resp' = Respuesta(p, "dashboard", 302, "login", "", <<>>)
       ELSE resp' = Respuesta(p, "dashboard", 200, "dashboard.html", "", <<>>)
    /\ UNCHANGED <<USE_POSTGRES, Cuentas, mensaje_limpieza_global, TablasInversiones,
                   asistencias, evaluaciones, programas, modalidades, seq, pc, req>>

(***************************************************************************)
(* init_db, the module initialisation that calls it, and /admin/init-db   *)
(***************************************************************************)
\* INSERT OR IGNORE / ON CONFLICT DO NOTHING of each default modality, in
\* the order of modalidades_default, ids from siguiente on
RECURSIVE ConModalidadesDefault(_, _, _)
ConModalidadesDefault(mods, siguiente, i) ==
    IF i > Len(modalidades_default) THEN [tabla |-> mods, siguiente |-> siguiente]
    ELSE IF \E r \in mods : r.nombre = modalidades_default[i]
    THEN ConModalidadesDefault(mods, siguiente, i + 1)
    ELSE ConModalidadesDefault(
             mods \cup {[id |-> siguiente, nombre |-> modalidades_default[i], activo |-> 1]},
             siguiente + 1, i + 1)

\* the rows of DELETE FROM asistencias WHERE id NOT IN (SELECT MIN(id) FROM
\* asistencias GROUP BY numero_identificacion, nombre_evento, fecha_evento)
FilasNoMinimas(tabla) ==
    {r \in tabla : \E q \in tabla : Clave(q) = Clave(r) /\ q.id < r.id}

\* init_db on the tables given: the default modalities, then the duplicates.
\* Where the foreign key is enforced, the DELETE of a row that an evaluation
\* points at fails; the handler around it goes on, every later statement
\* fails in the aborted transaction, and init_db rolls back and raises.
\* (siguiente is the least id not yet used by a row; the ids a sequence
\* skips after a rollback are not followed.)
init_db(tabla, evals, mods, siguiente, postgres) ==
    LET con_default == ConModalidadesDefault(mods, siguiente, 1)
        sobran == FilasNoMinimas(tabla)
    IN  IF sobran = {}
        THEN [error |-> FALSE, asistencias |-> tabla, modalidades |-> con_default.tabla,
              siguiente |-> con_default.siguiente, mensaje_limpieza |-> <<>>]
        ELSE IF ForeignKeysEnforced(postgres)
                /\ \E e \in evals : \E r \in sobran : e.asistencia_id = r.id
        THEN [error |-> TRUE, asistencias |-> tabla, modalidades |-> mods,
              siguiente |-> siguiente, mensaje_limpieza |-> <<>>]
        ELSE [error |-> FALSE, asistencias |-> tabla \ sobran,
              modalidades |-> con_default.tabla, siguiente |-> con_default.siguiente,
              mensaje_limpieza |-> <<Cardinality(sobran)>>]

\* the import of the module: mensaje_limpieza_global is None, init_db runs,
\* and its message, if it gives one, becomes the pending message
arranque ==
    /\ \A p \in Procs : pc[p] = "importando"
    /\ pc' = [p \in Procs |-> "idle"]
    /\ LET resultado == init_db(asistencias, evaluaciones, modalidades, seq.modalidades,
                                USE_POSTGRES)
       IN  /\ asistencias' = resultado.asistencias
           /\ modalidades' = resultado.modalidades
           /\ seq' = [seq EXCEPT !.modalidades = resultado.siguiente]
           /\ mensaje_limpieza_global' = resultado.mensaje_limpieza
           /\ resp' = Respuesta(0, "arranque", 0, "",
                                IF resultado.error THEN "error_al_inicializar" ELSE "",
                                resultado.mensaje_limpieza)
    /\ UNCHANGED <<USE_POSTGRES, Cuentas, TablasInversiones, evaluaciones, programas, req>>

\* variant: the route does not count the users
SinContarUsuarios(tabla) == 0

\* SELECT COUNT(*) as count FROM usuarios
ContarUsuarios(tabla) == Cardinality(tabla)

init_db_route(p) ==
    /\ pc[p] = "idle"
    /\ IF ContarUsuarios(usuarios) > 0
       THEN /\ resp' = Respuesta(p, "init_db_route", 403, "", "acceso_denegado", <<>>)
            /\ UNCHANGED <<asistencias, modalidades, seq>>
       ELSE LET resultado == init_db(asistencias, evaluaciones, modalidades, seq.modalidades,
                                     USE_POSTGRES)
            IN  /\ asistencias' = resultado.asistencias
                /\ modalidades' = resultado.modalidades
                /\ seq' = [seq EXCEPT !.modalidades = resultado.siguiente]
                /\ resp' = IF resultado.error
                           THEN Respuesta(p, "init_db_route", 500, "", "error_al_inicializar",
                                          <<>>)
                           ELSE Respuesta(p, "init_db_route", 200, "", "",
                                          resultado.mensaje_limpieza)
    /\ UNCHANGED <<USE_POSTGRES, Cuentas, mensaje_limpieza_global, TablasInversiones,
                   evaluaciones, programas, pc, req>>

(***************************************************************************)
(* Initial state: a fresh database after init_db has run at import time.  *)
(***************************************************************************)
Init ==
    /\ USE_POSTGRES \in BOOLEAN
    /\ asistencias = {}
    /\ evaluaciones = {}
    /\ programas = {}
    /\ modalidades = {[id |-> i, nombre |-> modalidades_default[i], activo |-> 1] :
                         i \in 1..Len(modalidades_default)}
    /\ inversiones_institucionales = {}
    /\ inversiones_programas = {}
    /\ seq = [asistencias |-> 1, programas |-> 1,
              modalidades |-> Len(modalidades_default) + 1]
    /\ pc = [p \in Procs |-> "idle"]
    /\ req = [p \in Procs |-> NoReq]
    /\ usuarios = {}
    /\ session = ""
    /\ mensaje_limpieza_global = <<>>
    /\ resp = NoResp

(***************************************************************************)
(* Request inputs.                                                         *)
(***************************************************************************)
F_Vieja == <<2019, 3, 10>>

Formulario(numero, evento, fecha, prog_est, prog_doc, modalidad) ==
    [nombre_evento |-> evento, dictado_por |-> "Biblioteca", docente |-> "Docente",
     programa_docente |-> prog_doc, numero_identificacion |-> numero,
     nombre_completo |-> "Asistente", programa_estudiante |-> prog_est,
     modalidad |-> modalidad, tipo_asistente |-> "Estudiante", sede |-> "Principal",
     fecha_evento |-> fecha]

\* forms of the registration specification: one person, an old date and
\* today by default, the unevaluated event category, an empty required
\* field and a date that is none
FormsRegistro ==
    {Formulario("1001", "Taller", F_Vieja, "Sistemas", "Derecho", "Presencial"),
     Formulario("1001", "Taller", <<>>, "Sistemas", "Derecho", "Presencial"),
     Formulario("1001", "Visita de Grupos", <<>>, "Sistemas", "Derecho", "Presencial"),
     Formulario("", "Taller", <<>>, "Sistemas", "Derecho", "Presencial"),
     Formulario("1001", "Taller", <<2025, 2, 30>>, "Sistemas", "Derecho", "Presencial")}

Celda(tipo, valor) == [tipo |-> tipo, valor |-> valor]

FilasHoja ==
    {Formulario("1001", "Taller", Celda("texto", Hoy), "Sistemas", "Derecho", "Presencial"),
     Formulario("1002", "Taller", Celda("datetime", Hoy), "Derecho", "Derecho", "Virtual")}

RECURSIVE Secuencias(_, _)
Secuencias(S, n) ==
    IF n = 0 THEN {<<>>}
    ELSE LET cortas == Secuencias(S, n - 1)
         IN  cortas \cup {Append(s, x) : s \in {c \in cortas : Len(c) = n - 1}, x \in S}

\* the columns of a complete sheet
TodasLasColumnas == {columnas_requeridas[i] : i \in 1..Len(columnas_requeridas)}

\* a request that carries no file
SinArchivo == [estado |-> "sin_archivo", columnas |-> {}, filas |-> <<>>]

\* sheets that lack one column, or two, of the required ones
HojasIncompletas ==
    {[estado |-> "ok", columnas |-> TodasLasColumnas \ faltan,
      filas |-> <<CHOOSE f \in FilasHoja : f.numero_identificacion = "1001">>] :
        faltan \in {{"fecha_evento"}, {"sede", "docente"}}}

\* the uploads: sheets of up to MaxFilas rows and the rejected uploads; a
\* request without a session is answered before the upload is looked at
Archivos ==
    {[estado |-> "ok", columnas |-> TodasLasColumnas, filas |-> fs] :
        fs \in Secuencias(FilasHoja, MaxFilas)}
    \cup HojasIncompletas
    \cup {[estado |-> e, columnas |-> {}, filas |-> <<>>] :
             e \in {"sin_archivo", "nombre_vacio", "extension"}}

FormsEvaluacion ==
    {<<"5", "5", "5", "5", "5">>, <<"3", "4", "5", "1", "2">>, <<"5", "", "5", "5", "5">>,
     <<"5", "5", "6", "5", "5">>, <<"5", "5", "5", "0", "x">>, <<"1", "5", "5", "5", "²">>}

(***************************************************************************)
(* Specification of registration, import and retention: two requests may  *)
(* be in flight at once.                                                   *)
(***************************************************************************)
Next ==
    \/ \E p \in Procs, f \in FormsRegistro : formulario_check(p, f)
    \/ \E p \in Procs : formulario_insert(p)
    \/ \E aut \in BOOLEAN : \E a \in (IF aut THEN Archivos ELSE {SinArchivo}) :
           panel_cargar_excel(1, aut, a)
    \/ \E aut \in BOOLEAN : limpiar_datos_route(1, aut)

Spec == Init /\ [][Next]_vars

(***************************************************************************)
(* Specification of evaluation: registrations, evaluations and retention. *)
(***************************************************************************)
FormsEvaluar ==
    {Formulario("1001", "Taller", F_Vieja, "Sistemas", "Derecho", "Presencial"),
     Formulario("1001", "Taller", <<>>, "Sistemas", "Derecho", "Presencial")}

NextEvaluacion ==
    \/ \E f \in FormsEvaluar : formulario_check(1, f)
    \/ formulario_insert(1)
    \/ \E aut \in BOOLEAN : limpiar_datos_route(1, aut)
    \/ \E id \in 1..(MaxAsistencias + 1), f \in FormsEvaluacion :
           formulario_evaluacion(1, id, f)

SpecEvaluacion == Init /\ [][NextEvaluacion]_vars

(***************************************************************************)
(* Specification of the catalogue: programs and modalities are added,     *)
(* toggled and deleted while registrations and imports go on.              *)
(***************************************************************************)
FormsCatalogo ==
    {Formulario("1001", "Taller", <<>>, "Sistemas", "Derecho", "Presencial")}

ArchivosCatalogo ==
    {[estado |-> "ok", columnas |-> TodasLasColumnas,
      filas |-> <<Formulario("1002", "Taller", Celda("texto", Hoy),
                             "Derecho", "Derecho", "Presencial")>>]}

NombresPrograma == {"Sistemas", "Derecho", ""}

\* modality ids the requests name: Presencial, and one that no row has
IdsModalidad == {1, Len(modalidades_default) + 1}

\* slot 1 carries the registrations and the single-statement requests,
\* slot 2 the delete requests
NextCatalogo ==
    \/ \E f \in FormsCatalogo : formulario_check(1, f)
    \/ formulario_insert(1)
    \/ \E a \in ArchivosCatalogo, aut \in BOOLEAN : panel_cargar_excel(1, aut, a)
    \/ \E aut \in BOOLEAN, n \in NombresPrograma : agregar_programa(1, aut, n)
    \/ \E aut \in BOOLEAN, id \in 1..(MaxCatalogo + 1) : toggle_programa(1, aut, id)
    \/ \E aut \in BOOLEAN, id \in IdsModalidad : api_toggle_modalidad(1, aut, id)
    \/ \E aut \in BOOLEAN, id \in 1..(MaxCatalogo + 1) :
           eliminar_programa_check(NumProcs, aut, id)
    \/ eliminar_programa_delete(NumProcs)
    \/ \E aut \in BOOLEAN, id \in IdsModalidad :
           api_eliminar_modalidad_check(NumProcs, aut, id)
    \/ api_eliminar_modalidad_delete(NumProcs)

SpecCatalogo == Init /\ [][NextCatalogo]_vars

(***************************************************************************)
(* Specification of retention: registrations dated before, inside and     *)
(* after the window, evaluations, and cleanups with any window length.    *)
(***************************************************************************)
F_Futura == <<ano_actual + 1, 1, 10>>

\* the first day of the default window
F_InicioVentana == <<ano_actual - 4, 1, 1>>

FormsRetencion ==
    {Formulario("1001", "Taller", f, "Sistemas", "Derecho", "Presencial") :
        f \in {F_Vieja, F_InicioVentana, <<>>, F_Futura}}

NextRetencion ==
    \/ \E f \in FormsRetencion : formulario_check(1, f)
    \/ formulario_insert(1)
    \/ \E id \in 1..MaxAsistencias : formulario_evaluacion(1, id, <<"5", "5", "5", "5", "5">>)
    \/ \E aut \in BOOLEAN : limpiar_datos_route(1, aut)
    \/ \E n \in 1..MaxAnosMantener : limpiar_datos_antiguos_call(1, n)

SpecRetencion == Init /\ [][NextRetencion]_vars

(***************************************************************************)
(* Specification of the panel: the grid is asked for a page of a table of *)
(* registrations, and the export is asked for what the grid was asked,    *)
(* or on its own.                                                          *)
(***************************************************************************)
\* registrations of three people: a program with an accented small
\* letter, one without accents, one in capitals with a letter that has no
\* REPLACE; the first two on the same day
FilasPanel ==
    {Fila(1, Formulario("1001", "Taller", <<2025, 3, 1>>, "Ingeniería", "Derecho",
                        "Presencial"), <<2025, 3, 1>>),
     Fila(2, Formulario("1002", "Taller", <<2025, 3, 1>>, "Derecho", "Sistemas",
                        "Virtual"), <<2025, 3, 1>>),
     Fila(3, Formulario("1003", "Visita de Grupos", F_Futura, "DISEÑO", "Derecho",
                        "Presencial"), F_Futura)}

SinFiltros == [i \in 1..Len(col_names) |-> ""]

\* columns[i][search][value] = val, i counted from 0, and no other filter
FiltroEn(i, val) == [SinFiltros EXCEPT ![i + 1] = val]

ParamsPanel ==
    [draw : {"1"},
     start : {"0", "1", "abc"},
     length : {"1", "25", "-1"},
     search : {"", "ingenieria", "ere"},
     order_column : {"10", "6", "99", "abc"},
     order_dir : {"asc", "x"},
     col_filters : {SinFiltros, FiltroEn(6, "diseño"), FiltroEn(10, "2025")}]

InitPanel ==
    /\ USE_POSTGRES \in BOOLEAN
    /\ asistencias \in SUBSET FilasPanel
    /\ evaluaciones = {}
    /\ programas = {}
    /\ modalidades = {[id |-> i, nombre |-> modalidades_default[i], activo |-> 1] :
                         i \in 1..Len(modalidades_default)}
    /\ inversiones_institucionales = {}
    /\ inversiones_programas = {}
    /\ seq = [asistencias |-> Cardinality(FilasPanel) + 1, programas |-> 1,
              modalidades |-> Len(modalidades_default) + 1]
    /\ pc = [p \in Procs |-> "idle"]
    /\ req = [p \in Procs |-> NoReq]
    /\ usuarios = {}
    /\ session = ""
    /\ mensaje_limpieza_global = <<>>
    /\ resp = NoResp

NextPanel ==
    \/ \E aut \in BOOLEAN, params \in ParamsPanel :
           resp = NoResp /\ api_asistencias(1, aut, params)
    \/ \E aut \in BOOLEAN, params \in ParamsPanel :
           resp = NoResp /\ exportar(1, aut, params)
    \/ \E aut \in BOOLEAN :
           /\ resp.ruta = "api_asistencias"
           /\ resp.codigo # 401
           /\ exportar(1, aut, resp.dato.params)

SpecPanel == InitPanel /\ [][NextPanel]_vars

(***************************************************************************)
(* Specification of the session check: on tables that hold rows or none,  *)
(* one request is made to a route of the panel, of the catalog or of the  *)
(* investments, with or without a session.                                 *)
(***************************************************************************)
ParamsSesion ==
    {[draw |-> "1", start |-> "0", length |-> "25", search |-> "", order_column |-> "10",
      order_dir |-> "desc", col_filters |-> SinFiltros]}

FiltrosSesion == {[evento |-> "", programa |-> "", fecha_inicio |-> <<>>, fecha_fin |-> <<>>]}

FormsInversionInstitucional == [ano : {"2025", "2026", ""}, monto_libros : {"10", "abc"}]

FormsInversionPrograma ==
    [ano : {"2025", "2026"}, programa : {"Derecho", ""}, libros_titulos : {"3", "abc"}]

\* the tables after a registration older than the window, a program, a
\* fourth modality and an investment of each kind were added, or not
InitSesion ==
    /\ USE_POSTGRES \in BOOLEAN
    /\ asistencias \in
           SUBSET {Fila(1, Formulario("1001", "Taller", F_Vieja, "Derecho", "Derecho",
                                      "Virtual"), F_Vieja)}
    /\ evaluaciones = {}
    /\ programas \in SUBSET {[id |-> 1, nombre |-> "Sistemas", activo |-> 1]}
    /\ modalidades \in
           {{[id |-> i, nombre |-> modalidades_default[i], activo |-> 1] :
                i \in 1..Len(modalidades_default)} \cup extra :
              extra \in SUBSET {[id |-> Len(modalidades_default) + 1, nombre |-> "Mixta",
                                 activo |-> 1]}}
    /\ inversiones_institucionales \in
           SUBSET {[ano |-> 2025, monto_libros |-> 10, monto_revistas |-> 0,
                    monto_bases_datos |-> 0, total |-> 10]}
    /\ inversiones_programas \in
           SUBSET {[ano |-> 2025, programa |-> "Derecho", libros_titulos |-> 3]}
    /\ seq = [asistencias |-> 2, programas |-> 2,
              modalidades |-> Len(modalidades_default) + 2]
    /\ pc = [p \in Procs |-> "idle"]
    /\ req = [p \in Procs |-> NoReq]
    /\ usuarios = {}
    /\ session = ""
    /\ mensaje_limpieza_global = <<>>
    /\ resp = NoResp

NextSesion ==
    \/ \E aut \in BOOLEAN : resp = NoResp /\ panel(1, aut, "")
    \/ \E aut \in BOOLEAN, params \in ParamsSesion :
           resp = NoResp /\ api_asistencias(1, aut, params)
    \/ \E aut \in BOOLEAN : resp = NoResp /\ api_stats_asistencias(1, aut)
    \/ \E aut \in BOOLEAN, a \in ArchivosCatalogo :
           resp = NoResp /\ panel_cargar_excel(1, aut, a)
    \/ \E aut \in BOOLEAN, params \in ParamsSesion : resp = NoResp /\ exportar(1, aut, params)
    \/ \E aut \in BOOLEAN : resp = NoResp /\ limpiar_datos_route(1, aut)
    \/ \E aut \in BOOLEAN, f \in FiltrosSesion : resp = NoResp /\ estadisticas(1, aut, f)
    \/ \E aut \in BOOLEAN : resp = NoResp /\ gestion_programas(1, aut)
    \/ \E aut \in BOOLEAN, n \in {"Sistemas", "Derecho"} :
           resp = NoResp /\ agregar_programa(1, aut, n)
    \/ \E aut \in BOOLEAN : resp = NoResp /\ toggle_programa(1, aut, 1)
    \/ \E aut \in BOOLEAN : resp = NoResp /\ eliminar_programa_check(1, aut, 1)
    \/ eliminar_programa_delete(1)
    \/ \E aut \in BOOLEAN, n \in {"Mixta", "Virtual"} :
           resp = NoResp /\ api_agregar_modalidad(1, aut, n)
    \/ \E aut \in BOOLEAN : resp = NoResp /\ api_toggle_modalidad(1, aut, 1)
    \/ \E aut \in BOOLEAN :
           resp = NoResp /\ api_eliminar_modalidad_check(1, aut, Len(modalidades_default) + 1)
    \/ api_eliminar_modalidad_delete(1)
    \/ \E aut \in BOOLEAN : resp = NoResp /\ inversiones(1, aut)
    \/ \E aut \in BOOLEAN : resp = NoResp /\ inversiones_institucional(1, aut)
    \/ \E aut \in BOOLEAN, metodo \in {"GET", "POST"}, f \in FormsInversionInstitucional :
           resp = NoResp /\ inversiones_institucional_registrar(1, aut, metodo, f)
    \/ \E aut \in BOOLEAN : resp = NoResp /\ inversiones_programas_panel(1, aut)
    \/ \E aut \in BOOLEAN, metodo \in {"GET", "POST"}, f \in FormsInversionPrograma :
           resp = NoResp /\ inversiones_programas_registrar(1, aut, metodo, f)

SpecSesion == InitSesion /\ [][NextSesion]_vars

(***************************************************************************)
(* Specification of the registration form: forms with each required field *)
(* empty in turn, and with every kind of date.                             *)
(***************************************************************************)
FormCompleto == Formulario("1001", "Taller", <<2025, 3, 1>>, "Sistemas", "Derecho", "Presencial")

\* "2025-3-1", the day of FormCompleto without leading zeros
F_SinCeros == <<2025, 3, 1, 1>>

FormsFormulario ==
    {[FormCompleto EXCEPT ![campos_requeridos[i]] = ""] : i \in 1..Len(campos_requeridos)}
    \cup {[FormCompleto EXCEPT !.fecha_evento = f] :
             f \in {<<2025, 3, 1>>, <<>>, <<2025, 2, 30>>, <<2025, 13, 1>>, <<2025, 3, 1, 0>>,
                    F_SinCeros}}
    \cup {[FormCompleto EXCEPT !.numero_identificacion = "1002", !.fecha_evento = <<>>],
          [FormCompleto EXCEPT !.sede = "", !.fecha_evento = <<2025, 2, 30>>]}

NextFormulario ==
    \/ \E f \in FormsFormulario : formulario_check(1, f)
    \/ formulario_insert(1)

SpecFormulario == Init /\ [][NextFormulario]_vars

(***************************************************************************)
(* Specification of the investments: registrations of two years, with     *)
(* amounts and counts that differ.                                         *)
(***************************************************************************)
FormsInstitucional == [ano : {"2025", "2026", "", "abc"}, monto_libros : {"10", "25"}]

FormsPrograma ==
    [ano : {"2025", "2026"}, programa : {"Derecho", ""}, libros_titulos : {"3", "6", "abc"}]

NextInversiones ==
    \/ \E aut \in BOOLEAN : inversiones(1, aut)
    \/ \E aut \in BOOLEAN : inversiones_institucional(1, aut)
    \/ \E aut \in BOOLEAN, metodo \in {"GET", "POST"}, f \in FormsInstitucional :
           inversiones_institucional_registrar(1, aut, metodo, f)
    \/ \E aut \in BOOLEAN : inversiones_programas_panel(1, aut)
    \/ \E aut \in BOOLEAN, metodo \in {"GET", "POST"}, f \in FormsPrograma :
           inversiones_programas_registrar(1, aut, metodo, f)

SpecInversiones == Init /\ [][NextInversiones]_vars

(***************************************************************************)
(* Specification of the ranking of programs: tables where the first event *)
(* has five or six programs, some with equal counts, and a second event   *)
(* has up to two; the statistics page is requested once on each.          *)
(***************************************************************************)
NumerosTop ==
    <<"1001", "1002", "1003", "1004", "1005", "1006", "1007", "1008", "1009", "1010", "1011">>

FilaTop(id, evento, programa) ==
    Fila(id, Formulario(NumerosTop[id], evento, <<>>, programa, "Derecho", "Presencial"), Hoy)

FilasBaseTop ==
    {FilaTop(1, "Taller 01", "Sistemas"), FilaTop(2, "Taller 01", "Sistemas"),
     FilaTop(3, "Taller 01", "Derecho"), FilaTop(4, "Taller 01", "Medicina"),
     FilaTop(5, "Taller 01", "Enfermeria"), FilaTop(6, "Taller 01", "Psicologia")}

FilasExtraTop ==
    {FilaTop(7, "Taller 01", "Derecho"), FilaTop(8, "Taller 01", "Contaduria"),
     FilaTop(9, "Taller 01", "Contaduria"), FilaTop(10, "Taller 02", "Sistemas"),
     FilaTop(11, "Taller 02", "Derecho")}

FiltrosTop ==
    [evento : {"", "Taller 01"}, programa : {"", "Derecho"}, fecha_inicio : {<<>>},
     fecha_fin : {<<>>}]

InitTop ==
    /\ USE_POSTGRES \in BOOLEAN
    /\ asistencias \in {FilasBaseTop \cup extra : extra \in SUBSET FilasExtraTop}
    /\ evaluaciones = {}
    /\ programas = {}
    /\ modalidades = {[id |-> i, nombre |-> modalidades_default[i], activo |-> 1] :
                         i \in 1..Len(modalidades_default)}
    /\ inversiones_institucionales = {}
    /\ inversiones_programas = {}
    /\ seq = [asistencias |-> Len(NumerosTop) + 1, programas |-> 1,
              modalidades |-> Len(modalidades_default) + 1]
    /\ pc = [p \in Procs |-> "idle"]
    /\ req = [p \in Procs |-> NoReq]
    /\ usuarios = {}
    /\ session = ""
    /\ mensaje_limpieza_global = <<>>
    /\ resp = NoResp

NextTop ==
    \E aut \in BOOLEAN, f \in FiltrosTop : resp = NoResp /\ estadisticas(1, aut, f)

SpecTop == InitTop /\ [][NextTop]_vars

(***************************************************************************)
(* Specification of the year window: calls of get_ventana_anos in several *)
(* years and with every window length up to the largest one kept.         *)
(***************************************************************************)
AnosDelReloj == (ano_actual - 5)..(ano_actual + 15)

NextVentana ==
    \E ano \in AnosDelReloj, num_anos \in 0..MaxAnosMantener :
        get_ventana_anos_call(ano, num_anos)

SpecVentana == Init /\ [][NextVentana]_vars

(***************************************************************************)
(* Specification of the accounts: one browser that registers, logs in and *)
(* out, and asks for the pages behind the login with the session it has.  *)
(***************************************************************************)
NombresRegistro == {"bibliotecario", " bibliotecario", "admin01", "admin1", " admin1 ", "  "}

ClavesRegistro == {"secreta123", "corta12", ""}

ClavesLogin == {"secreta123", "otraclave1"}

NextCuentas ==
    \/ \E metodo \in {"GET", "POST"}, u \in NombresRegistro, c \in ClavesRegistro :
           registro(1, metodo, u, c)
    \/ \E metodo \in {"GET", "POST"}, u \in NombresRegistro, c \in ClavesLogin :
           login(1, metodo, u, c)
    \/ logout(1)
    \/ dashboard(1, session # "")
    \/ panel(1, session # "", "")

SpecCuentas == Init /\ [][NextCuentas]_vars

(***************************************************************************)
(* Specification of the start-up: the process imports the module over a   *)
(* database an earlier version left behind, where the unique index is     *)
(* missing and rows can share a triple; then /admin/init-db is asked for. *)
(***************************************************************************)
FormHeredado == Formulario("1001", "Taller", F_Vieja, "Derecho", "Derecho", "Virtual")

FilasHeredadas ==
    {Fila(1, FormHeredado, F_Vieja),
     Fila(2, FormHeredado, F_Vieja),
     Fila(3, [FormHeredado EXCEPT !.numero_identificacion = "1002"], F_Vieja),
     Fila(4, [FormHeredado EXCEPT !.sede = "Norte"], F_Vieja)}

UsuarioHeredado ==
    [username |-> "bibliotecario", password |-> generate_password_hash("secreta123", 1)]

InitArranque ==
    /\ USE_POSTGRES \in BOOLEAN
    /\ asistencias \in SUBSET FilasHeredadas
    /\ evaluaciones \in
           {{}} \cup {{[asistencia_id |-> i, calificaciones |-> [k \in 1..5 |-> 5]]} :
                         i \in {r.id : r \in asistencias}}
    /\ programas = {}
    /\ modalidades \in
           SUBSET {[id |-> i, nombre |-> modalidades_default[i], activo |-> 1] :
                     i \in {1, Len(modalidades_default)}}
    /\ inversiones_institucionales = {}
    /\ inversiones_programas = {}
    /\ seq = [asistencias |-> 5, programas |-> 1,
              modalidades |-> Len(modalidades_default) + 1]
    /\ pc = [p \in Procs |-> "importando"]
    /\ req = [p \in Procs |-> NoReq]
    /\ usuarios \in SUBSET {UsuarioHeredado}
    /\ session = ""
    /\ mensaje_limpieza_global = <<>>
    /\ resp = NoResp

NextArranque ==
    \/ arranque
    \/ \E p \in Procs : init_db_route(p)

SpecArranque == InitArranque /\ [][NextArranque]_vars

(***************************************************************************)
(* Specification of the cleanup message: the same start-up, then the      *)
(* threads of the process serve /panel to a browser whose session cookie  *)
(* outlived the restart.                                                   *)
(***************************************************************************)
InitAviso ==
    /\ USE_POSTGRES \in BOOLEAN
    /\ asistencias \in {t \in SUBSET FilasHeredadas : Fila(1, FormHeredado, F_Vieja) \in t}
    /\ evaluaciones = {}
    /\ programas = {}
    /\ modalidades = {[id |-> i, nombre |-> modalidades_default[i], activo |-> 1] :
                        i \in 1..Len(modalidades_default)}
    /\ inversiones_institucionales = {}
    /\ inversiones_programas = {}
    /\ seq = [asistencias |-> 5, programas |-> 1,
              modalidades |-> Len(modalidades_default) + 1]
    /\ pc = [p \in Procs |-> "importando"]
    /\ req = [p \in Procs |-> NoReq]
    /\ usuarios = {UsuarioHeredado}
    /\ session \in {"", UsuarioHeredado.username}
    /\ mensaje_limpieza_global = <<>>
    /\ resp = NoResp

NextAviso ==
    \/ arranque
    \/ \E p \in Procs, success \in {"", "guardado"} : panel(p, session # "", success)
    \/ \E p \in Procs : panel_mensaje(p)
    \/ \E p \in Procs : panel_limpiar(p)

SpecAviso == InitAviso /\ [][NextAviso]_vars

(***************************************************************************)
(* Properties of registration, import and retention (under Spec).         *)
(***************************************************************************)
\* the triple a valid form registers: fecha_evento defaults to today
TripleDe(f) ==
    <<f.numero_identificacion, f.nombre_evento,
      IF f.fecha_evento = <<>> THEN Hoy ELSE f.fecha_evento>>

TieneTriple(tabla, t) ==
    \E r \in tabla : /\ r.numero_identificacion = t[1]
                     /\ r.nombre_evento = t[2]
                     /\ r.fecha_evento = t[3]

FormsCompletos == {f \in FormsRegistro : f.numero_identificacion # "" /\ f.fecha_evento # <<2025, 2, 30>>}

\* C1: after any sequence of /formulario registrations, Excel imports and
\* retention cleanups no two attendance rows have the same
\* (numero_identificacion, nombre_evento, fecha_evento).
C1_TripleUnico ==
    \A r1 \in asistencias : \A r2 \in asistencias :
        (/\ r1.numero_identificacion = r2.numero_identificacion
         /\ r1.nombre_evento = r2.nombre_evento
         /\ r1.fecha_evento = r2.fecha_evento) => r1 = r2

\* an import met a sheet row whose triple was already stored and skipped it,
\* next to rows it did store
C1_Witness ==
    /\ resp.ruta = "panel_cargar_excel"
    /\ resp.destino = "panel"
    /\ resp.error = ""
    /\ resp.dato[2] > 0
    /\ Cardinality(asistencias) >= 2

\* C2: a /formulario POST whose triple is that of an existing attendance
\* row leaves the attendance table as it was, runs no INSERT, and answers
\* with the form re-rendered (no redirect) with an error naming the person,
\* the event and the conflicting date as dd/mm/yyyy.
C2_DuplicadoRechazado ==
    [][\A p \in Procs : \A f \in FormsCompletos :
          (TieneTriple(asistencias, TripleDe(f)) /\ formulario_check(p, f))
          => /\ asistencias' = asistencias
             /\ pc'[p] = "idle"
             /\ resp'.proc = p
             /\ resp'.codigo = 200
             /\ resp'.destino = "formulario.html"
             /\ resp'.error = "ya_registrada"
             /\ resp'.dato = <<f.numero_identificacion, f.nombre_evento,
                               <<TripleDe(f)[3][3], TripleDe(f)[3][2], TripleDe(f)[3][1]>> >>
      ]_vars

\* a duplicate POST was answered with the error for the old date 10/03/2019
C2_Witness ==
    /\ resp.ruta = "formulario"
    /\ resp.error = "ya_registrada"
    /\ resp.dato[3] = <<10, 3, 2019>>
    /\ TieneTriple(asistencias, <<"1001", "Taller", F_Vieja>>)

\* C3: when requests carrying the same triple have all passed the pre-check
\* COUNT, the INSERT that runs while the triple is absent commits and is
\* answered with a redirect; an INSERT that runs once the triple is stored
\* stores nothing and ends in the error response; after either the table
\* holds exactly one row with that triple.
C3_CarreraUnSoloInsert ==
    [][\A p \in Procs :
          (pc[p] = "formulario_insert" /\ pc'[p] = "idle")
          => LET t == <<req[p].form.numero_identificacion, req[p].form.nombre_evento,
                        req[p].fecha_evento>>
             IN  /\ Cardinality({r \in asistencias' :
                        /\ r.numero_identificacion = t[1]
                        /\ r.nombre_evento = t[2]
                        /\ r.fecha_evento = t[3]}) = 1
                 /\ resp'.proc = p
                 /\ IF TieneTriple(asistencias, t)
                    THEN /\ asistencias' = asistencias
                         /\ resp'.codigo = 200
                         /\ resp'.error = "error_al_registrar"
                    ELSE /\ asistencias \subseteq asistencias'
                         /\ Cardinality(asistencias') = Cardinality(asistencias) + 1
                         /\ resp'.codigo = 302
                         /\ resp'.error = ""
      ]_vars

\* two requests passed the pre-check with the same triple, one committed
\* and the other was refused by the unique index
C3_Witness ==
    /\ resp.ruta = "formulario"
    /\ resp.error = "error_al_registrar"
    /\ \A p \in Procs : pc[p] = "idle"
    /\ Cardinality({r \in asistencias : r.nombre_evento = "Taller"
                                        /\ r.fecha_evento = Hoy}) = 1

\* the eleven columns a sheet must have
ColumnasHoja ==
    {"nombre_evento", "dictado_por", "docente", "programa_docente",
     "numero_identificacion", "nombre_completo", "programa_estudiante",
     "modalidad", "tipo_asistente", "sede", "fecha_evento"}

\* the key a sheet row is stored under
ClaveHoja(row) ==
    <<row.numero_identificacion, row.nombre_evento, StrCelda(row.fecha_evento)>>

\* C19: a successful /formulario registration redirects to the evaluation
\* form of the attendance id just inserted when nombre_evento is not "Visita
\* de Grupos", and to the success page, with no evaluation step, when it is.
C19_RedirigeAEvaluacion ==
    [][\A p \in Procs :
          (pc[p] = "formulario_insert" /\ pc'[p] = "idle" /\ asistencias' # asistencias)
          => LET nueva == CHOOSE r \in asistencias' : r \notin asistencias
             IN  /\ resp'.proc = p
                 /\ resp'.codigo = 302
                 /\ nueva.nombre_evento = req[p].form.nombre_evento
                 /\ IF req[p].form.nombre_evento = "Visita de Grupos"
                    THEN resp'.destino = "formulario_success"
                    ELSE /\ resp'.destino = "formulario_evaluacion"
                         /\ resp'.dato = nueva.id
      ]_vars

\* a visit was registered, answered with the success page, and then a
\* workshop, answered with the evaluation form of its id
C19_Witness ==
    /\ resp.ruta = "formulario"
    /\ resp.destino = "formulario_evaluacion"
    /\ \E r \in asistencias : r.id = resp.dato /\ r.id > 1 /\ r.nombre_evento = "Taller"
    /\ \E r \in asistencias : r.nombre_evento = "Visita de Grupos"

\* C13: an upload with all the required columns whose rows are N rows with
\* new, pairwise distinct keys and M rows with the key of an existing
\* attendance row, in any order and on either backend, adds exactly the N
\* rows and reports N inserted and M omitted as duplicates.
C13_ImportaNuevasOmiteDuplicadas ==
    [][\A a \in Archivos :
          LET dups == {i \in 1..Len(a.filas) :
                          TieneTriple(asistencias, ClaveHoja(a.filas[i]))}
              nuevas == (1..Len(a.filas)) \ dups
          IN  (/\ a.estado = "ok"
               /\ a.columnas = ColumnasHoja
               /\ \A i \in nuevas : \A j \in nuevas :
                     i # j => ClaveHoja(a.filas[i]) # ClaveHoja(a.filas[j])
               /\ panel_cargar_excel(1, TRUE, a))
              => /\ asistencias \subseteq asistencias'
                 /\ {Clave(r) : r \in asistencias' \ asistencias}
                       = {ClaveHoja(a.filas[i]) : i \in nuevas}
                 /\ Cardinality(asistencias' \ asistencias) = Cardinality(nuevas)
                 /\ resp'.dato = <<Cardinality(nuevas), Cardinality(dups)>>
      ]_vars

\* C14: an upload with no file, an empty filename, a filename that is not
\* .xlsx or .xls, or a sheet that lacks any of the eleven required columns
\* inserts no attendance row; for a sheet that lacks columns the redirect
\* carries an error naming the missing columns.
C14_CargaRechazada ==
    [][\A a \in Archivos :
          (/\ \/ a.estado \in {"sin_archivo", "nombre_vacio", "extension"}
              \/ ~(ColumnasHoja \subseteq a.columnas)
           /\ panel_cargar_excel(1, TRUE, a))
          => /\ asistencias' = asistencias
             /\ seq' = seq
             /\ resp'.codigo = 302
             /\ resp'.destino = "panel"
             /\ resp'.error # ""
             /\ a.estado = "ok"
                  => /\ resp'.error = "faltan_columnas"
                     /\ {resp'.dato[i] : i \in 1..Len(resp'.dato)}
                           = ColumnasHoja \ a.columnas
      ]_vars

\* a sheet without the columns sede and docente was refused while the table
\* held a row
C14_Witness ==
    /\ resp.ruta = "panel_cargar_excel"
    /\ resp.error = "faltan_columnas"
    /\ resp.dato = <<"docente", "sede">>
    /\ asistencias # {}

(***************************************************************************)
(* Properties of evaluation (under SpecEvaluacion).                        *)
(***************************************************************************)
FormsEvaluacionValidos ==
    {f \in FormsEvaluacion : \A i \in 1..5 : f[i] \in {"1", "2", "3", "4", "5"}}

\* C4: a second valid POST for an attendance id that has an evaluation
\* stores nothing, leaves the stored evaluation as it is and answers 'Ya
\* existe una evaluacion para esta asistencia'; an attendance id never has
\* two evaluations.
C4_EvaluacionUnica ==
    /\ [](\A e1 \in evaluaciones : \A e2 \in evaluaciones :
            e1.asistencia_id = e2.asistencia_id => e1 = e2)
    /\ [][\A e \in evaluaciones : \A f \in FormsEvaluacionValidos :
            formulario_evaluacion(1, e.asistencia_id, f)
            => /\ evaluaciones' = evaluaciones
               /\ resp'.codigo = 200
               /\ resp'.error = "Ya existe una evaluacion para esta asistencia"
               /\ resp'.dato = e.asistencia_id
         ]_vars

\* a second POST for an evaluated attendance was refused
C4_Witness ==
    /\ resp.ruta = "formulario_evaluacion"
    /\ resp.error = "Ya existe una evaluacion para esta asistencia"
    /\ \E e \in evaluaciones : e.asistencia_id = resp.dato
    /\ \E r \in asistencias : r.id = resp.dato

\* C5: every evaluation row's asistencia_id is the id of an existing
\* attendance row.
C5_EvaluacionConAsistencia ==
    \A e \in evaluaciones : \E r \in asistencias : r.id = e.asistencia_id

\* C20: every stored evaluation has its five ratings in 1..5; a POST in
\* which a rating is missing, is not a digit string or is outside 1..5 stores
\* no evaluation and re-renders the form with an error.
C20_CalificacionesEnRango ==
    /\ [](\A e \in evaluaciones : \A i \in 1..5 : e.calificaciones[i] \in 1..5)
    /\ [][\A id \in 1..(MaxAsistencias + 1) :
            \A f \in FormsEvaluacion \ FormsEvaluacionValidos :
               formulario_evaluacion(1, id, f)
               => /\ evaluaciones' = evaluaciones
                  /\ resp'.codigo = 200
                  /\ resp'.destino = "formulario_evaluacion.html"
                  /\ resp'.error # ""
         ]_vars

\* a POST with the rating 6 for an existing attendance was refused, naming
\* the field, while another attendance had its evaluation
C20_Witness ==
    /\ resp.ruta = "formulario_evaluacion"
    /\ resp.error = "valor_entre_1_y_5"
    /\ resp.dato = "lenguaje_comprensible"
    /\ evaluaciones # {}

(***************************************************************************)
(* Properties of the catalogue (under SpecCatalogo).                       *)
(***************************************************************************)
\* an attendance row names the program, as the student's or the teacher's
ProgramaReferido(tabla, nombre) ==
    \E a \in tabla : a.programa_estudiante = nombre \/ a.programa_docente = nombre

ModalidadReferida(tabla, nombre) == \E a \in tabla : a.modalidad = nombre

\* C6: a DELETE of a program named by an attendance row (as
\* programa_estudiante or programa_docente) or of a modality named by one
\* is answered with a failure and leaves programas and modalidades as they
\* were; a DELETE that finds no such row goes on to remove exactly the row
\* with that id and answers success.
C6_EliminarReferido ==
    [][/\ \A id \in 1..(MaxCatalogo + 1) :
            /\ (/\ eliminar_programa_check(NumProcs, TRUE, id)
                /\ \E r \in programas : r.id = id /\ ProgramaReferido(asistencias, r.nombre))
               => /\ resp'.ruta = "eliminar_programa"
                  /\ resp'.codigo = 400
                  /\ pc'[NumProcs] = "idle"
                  /\ programas' = programas
                  /\ modalidades' = modalidades
            /\ (/\ eliminar_programa_check(NumProcs, TRUE, id)
                /\ ~\E r \in programas : r.id = id /\ ProgramaReferido(asistencias, r.nombre))
               => /\ pc'[NumProcs] = "eliminar_programa_delete"
                  /\ req'[NumProcs].id = id
                  /\ programas' = programas
       /\ \A id \in IdsModalidad :
            /\ (/\ api_eliminar_modalidad_check(NumProcs, TRUE, id)
                /\ \E r \in modalidades : r.id = id /\ ModalidadReferida(asistencias, r.nombre))
               => /\ resp'.ruta = "api_eliminar_modalidad"
                  /\ resp'.codigo = 400
                  /\ pc'[NumProcs] = "idle"
                  /\ programas' = programas
                  /\ modalidades' = modalidades
            /\ (/\ api_eliminar_modalidad_check(NumProcs, TRUE, id)
                /\ ~\E r \in modalidades : r.id = id /\ ModalidadReferida(asistencias, r.nombre))
               => /\ pc'[NumProcs] = "api_eliminar_modalidad_delete"
                  /\ req'[NumProcs].id = id
                  /\ modalidades' = modalidades
       /\ eliminar_programa_delete(NumProcs)
            => /\ programas' = {r \in programas : r.id # req[NumProcs].id}
               /\ modalidades' = modalidades
               /\ resp'.codigo = 200
       /\ api_eliminar_modalidad_delete(NumProcs)
            => /\ modalidades' = {r \in modalidades : r.id # req[NumProcs].id}
               /\ programas' = programas
               /\ resp'.codigo = 200
      ]_vars

\* a DELETE of a program that an attendance row names only as the teacher's
\* program was refused, with another program stored beside it
C6_Witness ==
    /\ resp.ruta = "eliminar_programa"
    /\ resp.codigo = 400
    /\ \E r \in programas :
          /\ r.nombre = "Derecho"
          /\ \E a \in asistencias : a.programa_docente = r.nombre
          /\ ~\E a \in asistencias : a.programa_estudiante = r.nombre
    /\ Cardinality(programas) = 2

\* C7: toggling an active program or modality succeeds even when attendance
\* rows name it, takes its name off the active-options lists and leaves
\* every attendance row as it was.
EnLista(lista, nombre) == \E i \in 1..Len(lista) : lista[i] = nombre

C8_NoBorraReferidoEnCarrera ==
    [][/\ \A r \in programas :
            (~\E x \in programas' : x.id = r.id) => ~ProgramaReferido(asistencias', r.nombre)
       /\ \A r \in modalidades :
            (~\E x \in modalidades' : x.id = r.id) => ~ModalidadReferida(asistencias', r.nombre)
      ]_vars

(***************************************************************************)
(* Specification of the statistics page: the attendance table is one of a *)
(* family of tables that registrations and imports can build, and the     *)
(* page is requested with every filter set.                                *)
(***************************************************************************)
NombresEventosEstadisticas ==
    <<"Taller 01", "Taller 02", "Taller 03", "Taller 04", "Taller 05", "Taller 06",
      "Taller 07", "Taller 08", "Taller 09", "Taller 10", "Taller 11", "Taller 12",
      "Taller 13", "Taller 14", "Taller 15", "Taller 16", "Taller 17", "Taller 18">>

\* one row today for each of the first n events
FilasBase(n) ==
    {Fila(i, Formulario("1001", NombresEventosEstadisticas[i], <<>>,
                        "Sistemas", "Derecho", "Presencial"), Hoy) : i \in 1..n}

\* further rows of the first events: a second person of another program,
\* dates before the window, on its first day and after it, an imported
\* datetime cell
FilasExtra ==
    {Fila(MaxEventosEstadisticas + 1,
          Formulario("1002", NombresEventosEstadisticas[1], <<>>,
                     "Derecho", "Derecho", "Virtual"), Hoy),
     Fila(MaxEventosEstadisticas + 2,
          Formulario("1001", NombresEventosEstadisticas[1], <<>>,
                     "Sistemas", "Derecho", "Presencial"), <<2020, 12, 31>>),
     Fila(MaxEventosEstadisticas + 3,
          Formulario("1002", NombresEventosEstadisticas[2], <<>>,
                     "Sistemas", "Derecho", "Presencial"), <<2021, 1, 1>>),
     Fila(MaxEventosEstadisticas + 4,
          Formulario("1003", NombresEventosEstadisticas[1], <<>>,
                     "Derecho", "Derecho", "Presencial"), <<2026, 1, 1>>),
     Fila(MaxEventosEstadisticas + 5,
          Formulario("1003", NombresEventosEstadisticas[2], <<>>,
                     "Sistemas", "Derecho", "Presencial"), <<2025, 12, 31, 0>>)}

TablasEstadisticas ==
    {FilasBase(n) \cup extra : n \in 0..MaxEventosEstadisticas, extra \in SUBSET FilasExtra}

FiltrosEstadisticas ==
    [evento : {"", NombresEventosEstadisticas[1]},
     programa : {"", "Derecho"},
     fecha_inicio : {<<>>, <<2021, 1, 1>>},
     fecha_fin : {<<>>, <<2025, 12, 31>>}]

InitEstadisticas ==
    /\ USE_POSTGRES \in BOOLEAN
    /\ asistencias \in TablasEstadisticas
    /\ evaluaciones = {}
    /\ programas = {}
    /\ modalidades = {[id |-> i, nombre |-> modalidades_default[i], activo |-> 1] :
                         i \in 1..Len(modalidades_default)}
    /\ inversiones_institucionales = {}
    /\ inversiones_programas = {}
    /\ seq = [asistencias |-> MaxEventosEstadisticas + Cardinality(FilasExtra) + 1,
              programas |-> 1,
              modalidades |-> Len(modalidades_default) + 1]
    /\ pc = [p \in Procs |-> "idle"]
    /\ req = [p \in Procs |-> NoReq]
    /\ usuarios = {}
    /\ session = ""
    /\ mensaje_limpieza_global = <<>>
    /\ resp = NoResp

\* the page is requested once on each table
NextEstadisticas ==
    \E aut \in BOOLEAN, f \in FiltrosEstadisticas :
        resp = NoResp /\ estadisticas(1, aut, f)

SpecEstadisticas == InitEstadisticas /\ [][NextEstadisticas]_vars

(***************************************************************************)
(* Properties of the statistics page (under SpecEstadisticas).            *)
(***************************************************************************)
RECURSIVE Suma(_)
Suma(valores) == IF valores = <<>> THEN 0 ELSE Head(valores) + Suma(Tail(valores))

HayEstadisticas == resp.ruta = "estadisticas" /\ resp.codigo = 200 /\ resp.error = ""

\* C9 as claimed: the per-event counts shown add up to total_asistencias,
\* for any number of distinct events that match.
C9_SumaIgualTotal ==
    HayEstadisticas => Suma(resp.dato.eventos_valores) = resp.dato.total_asistencias

\* C9 amended: the per-event counts shown add up to total_asistencias
\* whenever at most 15 distinct events match the filters; with more, the
\* breakdown shows the 15 largest counts only.
C9_SumaIgualTotalHasta15 ==
    HayEstadisticas =>
        /\ resp.dato.total_eventos <= 15
             => Suma(resp.dato.eventos_valores) = resp.dato.total_asistencias
        /\ Len(resp.dato.eventos_valores) =
             IF resp.dato.total_eventos <= 15 THEN resp.dato.total_eventos ELSE 15
        /\ Suma(resp.dato.eventos_valores) <= resp.dato.total_asistencias

\* a page with exactly 15 matching events, one of them with several rows
C9_Witness ==
    /\ HayEstadisticas
    /\ resp.dato.total_eventos = 15
    /\ resp.dato.total_asistencias > 15
    /\ Suma(resp.dato.eventos_valores) = resp.dato.total_asistencias

\* a stored date as a number, and the order of the stored texts
NumFecha(f) == f[1] * 10000 + f[2] * 100 + f[3]

TextoFechaMenorIgual(a, b) ==
    \/ NumFecha(a) < NumFecha(b)
    \/ NumFecha(a) = NumFecha(b) /\ Len(a) <= Len(b)

\* the rows /estadisticas is to aggregate for a filter set
FilasEsperadas(f) ==
    {r \in asistencias :
       /\ f.evento # "" => r.nombre_evento = f.evento
       /\ f.programa # "" => r.programa_estudiante = f.programa
       /\ IF f.fecha_inicio = <<>> /\ f.fecha_fin = <<>>
          THEN r.fecha_evento[1] \in (ano_actual - 4)..ano_actual
          ELSE /\ f.fecha_inicio # <<>> => TextoFechaMenorIgual(f.fecha_inicio, r.fecha_evento)
               /\ f.fecha_fin # <<>> => TextoFechaMenorIgual(r.fecha_evento, f.fecha_fin)}

\* C10: with neither fecha_inicio nor fecha_fin the rows aggregated are
\* exactly those whose event year lies in [current year - 4, current year],
\* narrowed by the event and program filters; with a date bound supplied
\* the window is not applied and only the supplied bounds restrict dates.
C10_VentanaPorDefecto ==
    /\ HayEstadisticas
         => /\ resp.dato.filas = FilasEsperadas(resp.dato.filtros)
            /\ resp.dato.total_asistencias = Cardinality(FilasEsperadas(resp.dato.filtros))
    /\ (resp.ruta = "estadisticas" /\ resp.error = "sin_datos")
         => FilasEsperadas(resp.dato.filtros) = {}

\* a default page that left out rows before and after the window
C10_Witness ==
    /\ HayEstadisticas
    /\ resp.dato.filtros.fecha_inicio = <<>>
    /\ resp.dato.filtros.fecha_fin = <<>>
    /\ \E r \in asistencias : r.fecha_evento[1] < ano_actual - 4 /\ r \notin resp.dato.filas
    /\ \E r \in asistencias : r.fecha_evento[1] > ano_actual /\ r \notin resp.dato.filas
    /\ \E r \in asistencias : r.fecha_evento[1] = ano_actual - 4 /\ r \in resp.dato.filas

\* a page with only fecha_fin supplied that counts a row older than the window
C10_WitnessConFechas ==
    /\ HayEstadisticas
    /\ resp.dato.filtros.fecha_inicio = <<>>
    /\ resp.dato.filtros.fecha_fin # <<>>
    /\ \E r \in resp.dato.filas : r.fecha_evento[1] < ano_actual - 4

(***************************************************************************)
(* Properties of retention (under SpecRetencion).                          *)
(***************************************************************************)
\* the event year of a stored date: its first four characters
AnoEvento(r) == r.fecha_evento[1]

\* the row's event year is in [current year - (n - 1), current year]
EnVentana(r, n) == AnoEvento(r) >= ano_actual - (n - 1) /\ AnoEvento(r) <= ano_actual

\* C11: after limpiar_datos_antiguos(N) returns success no attendance row
\* has an event year outside [current year - (N - 1), current year],
\* neither before the window nor after it.
C11_NadaFueraDeVentana ==
    [][\A n \in 1..MaxAnosMantener :
          (limpiar_datos_antiguos_call(1, n) /\ resp'.error = "")
          => \A r \in asistencias' : EnVentana(r, n)
      ]_vars

CoincideNormalizado(r, c, termino) ==
    Contiene(normalize_text(ValorColumna(r, c)), normalize_text(Letras(termino)))

\* the rows a search that ignores case and accents finds
FilasNormalizadas(tabla, search_val, col_filters) ==
    {r \in tabla :
        /\ \/ search_val = ""
           \/ \E i \in 1..Len(col_names) : CoincideNormalizado(r, col_names[i], search_val)
        /\ \A i \in 1..Len(col_names) :
               \/ col_filters[i] = ""
               \/ CoincideNormalizado(r, col_names[i], col_filters[i])}

\* C15: in /api/asistencias and /exportar, on either backend, a row is found
\* whenever the normalized search term and every normalized column filter
\* is part of the normalized stored value: the grid counts every such row
\* and the export writes every such row.
C15_BusquedaSinAcentos ==
    /\ (resp.ruta = "api_asistencias" /\ resp.codigo = 200) =>
           Cardinality(FilasNormalizadas(asistencias, resp.dato.params.search,
                                         resp.dato.params.col_filters))
               <= resp.dato.recordsFiltered
    /\ (resp.ruta = "exportar" /\ resp.codigo \in {200, 400}) =>
           LET escritas == IF resp.codigo = 200
                           THEN {resp.dato.data[i] : i \in DOMAIN resp.dato.data}
                           ELSE {}
           IN  \A r \in FilasNormalizadas(asistencias, resp.dato.params.search,
                                          resp.dato.params.col_filters) :
                   FilaDatos(r) \in escritas

\* C16: an authenticated request to /api/asistencias is answered with
\* recordsTotal the number of all rows, recordsFiltered the number of rows
\* the search and the filters select, and data the rows at positions start
\* to start + length - 1 of those rows in the chosen order; data has at
\* most length rows and recordsFiltered is at most recordsTotal.
C16_PaginaDeLaGrilla ==
    (resp.ruta = "api_asistencias" /\ resp.codigo # 401) =>
        LET params == resp.dato.params
            filas == FilasWhere(asistencias, USE_POSTGRES, params.search, params.col_filters)
        IN  /\ resp.dato.recordsTotal = Cardinality(asistencias)
            /\ resp.dato.recordsFiltered = Cardinality(filas)
            /\ resp.dato.recordsFiltered <= resp.dato.recordsTotal
            /\ Len(resp.dato.data) <= Entero(params.length)
            /\ \E orden \in Ordenes(filas, OrderCol(Entero(params.order_column)),
                                    OrderDir(params.order_dir)) :
                   resp.dato.data =
                       [i \in 1..Len(resp.dato.data) |->
                           FilaDatos(orden[Entero(params.start) + i])]

\* a page the grid can be asked for on either backend
PaginaValida(params) ==
    /\ EsEntero(params.draw)
    /\ EsEntero(params.start) /\ Entero(params.start) >= 0
    /\ EsEntero(params.length) /\ Entero(params.length) >= 0

\* C17: asked with the search term, column filters, sort column and sort
\* direction the grid was asked with, the export writes as many rows as the
\* grid counted in recordsFiltered, in the order of the same column and
\* direction, whatever the sort column and direction are: out of range, no
\* number, or no direction.
C17_ExportaLoQueLaGrillaCuenta ==
    [][(/\ resp.ruta = "api_asistencias"
        /\ resp.codigo # 401
        /\ PaginaValida(resp.dato.params)
        /\ resp'.ruta = "exportar"
        /\ resp'.codigo \in {200, 400}
        /\ resp'.dato.params = resp.dato.params) =>
            IF resp'.codigo = 400
            THEN resp.dato.recordsFiltered = 0
            ELSE /\ resp.dato.recordsFiltered = Len(resp'.dato.data)
                 /\ resp.codigo = 200
                 /\ resp.dato.order_col = resp'.dato.order_col
                 /\ resp.dato.order_dir = resp'.dato.order_dir]_vars

(***************************************************************************)
(* Properties of the session check (SpecSesion).                          *)
(***************************************************************************)
\* the tables of the database
Tablas ==
    <<asistencias, evaluaciones, programas, modalidades, inversiones_institucionales,
      inversiones_programas>>

\* a request without a session to a page route
PaginaSinSesion ==
    \/ panel(1, FALSE, "")
    \/ \E a \in ArchivosCatalogo : panel_cargar_excel(1, FALSE, a)
    \/ \E params \in ParamsSesion : exportar(1, FALSE, params)
    \/ limpiar_datos_route(1, FALSE)
    \/ \E f \in FiltrosSesion : estadisticas(1, FALSE, f)
    \/ gestion_programas(1, FALSE)
    \/ inversiones(1, FALSE)
    \/ inversiones_institucional(1, FALSE)
    \/ \E metodo \in {"GET", "POST"}, f \in FormsInversionInstitucional :
           inversiones_institucional_registrar(1, FALSE, metodo, f)
    \/ inversiones_programas_panel(1, FALSE)
    \/ \E metodo \in {"GET", "POST"}, f \in FormsInversionPrograma :
           inversiones_programas_registrar(1, FALSE, metodo, f)

\* a request without a session to a JSON route
JsonSinSesion ==
    \/ \E params \in ParamsSesion : api_asistencias(1, FALSE, params)
    \/ api_stats_asistencias(1, FALSE)
    \/ \E n \in {"Sistemas", "Derecho"} : agregar_programa(1, FALSE, n)
    \/ toggle_programa(1, FALSE, 1)
    \/ eliminar_programa_check(1, FALSE, 1)
    \/ \E n \in {"Mixta", "Virtual"} : api_agregar_modalidad(1, FALSE, n)
    \/ api_toggle_modalidad(1, FALSE, 1)
    \/ api_eliminar_modalidad_check(1, FALSE, Len(modalidades_default) + 1)

\* C18: without a session, a request to a route that lists, exports,
\* imports or cleans up registrations, shows statistics, or manages
\* programs, modalities or investments changes no table and carries no
\* stored data: a page route redirects to login, a JSON route answers 401.
C18_SinSesionNadaCambia ==
    [][/\ PaginaSinSesion =>
              /\ UNCHANGED Tablas
              /\ resp'.codigo = 302 /\ resp'.destino = "login" /\ resp'.dato = <<>>
       /\ JsonSinSesion =>
              /\ UNCHANGED Tablas
              /\ resp'.codigo = 401 /\ resp'.dato = <<>>]_vars

\* a request without a session was answered while every kind of table held
\* a row, one of them a registration older than the window
C18_Witness ==
    /\ resp.codigo = 401 \/ (resp.codigo = 302 /\ resp.destino = "login")
    /\ resp.dato = <<>>
    /\ \E r \in asistencias : r.fecha_evento = F_Vieja
    /\ programas # {}
    /\ \E r \in modalidades : r.nombre = "Mixta"
    /\ inversiones_institucionales # {}
    /\ inversiones_programas # {}

(***************************************************************************)
(* Properties of the registration form (SpecFormulario).                  *)
(***************************************************************************)
\* a required field of the form is empty, or its date is given and is no
\* date written as YYYY-MM-DD
FormularioRechazable(f) ==
    \/ PrimerCampoVacio(f) # 0
    \/ f.fecha_evento # <<>> /\ ~FechaCanonica(f.fecha_evento)

\* C21: a POST to /formulario with a required field empty, or with a date
\* that is given and is no valid YYYY-MM-DD date, inserts no row and shows
\* the form again with an error; with an empty date the registration goes
\* on with today's date.
C21_FormularioValidado ==
    [][\A f \in FormsFormulario :
           formulario_check(1, f) =>
               /\ FormularioRechazable(f) =>
                      /\ pc'[1] = "idle"
                      /\ asistencias' = asistencias
                      /\ resp'.destino = "formulario.html"
                      /\ resp'.error \in {"campo_requerido", "fecha_invalida"}
               /\ (~FormularioRechazable(f) /\ f.fecha_evento = <<>>
                     /\ pc'[1] = "formulario_insert") =>
                      req'[1].fecha_evento = Hoy]_vars

(***************************************************************************)
(* Properties of the investments (SpecInversiones).                       *)
(***************************************************************************)
\* C22: there is at most one institutional investment per year and at most
\* one program investment per year and program; registering a second one
\* is answered with the error that a record exists already and leaves both
\* tables as they were.
C22_UnaInversionPorAno ==
    [][/\ \A a, b \in inversiones_institucionales' : a.ano = b.ano => a = b
       /\ \A a, b \in inversiones_programas' :
              (a.ano = b.ano /\ a.programa = b.programa) => a = b
       /\ \A f \in FormsInstitucional :
              (/\ EsEntero(f.ano)
               /\ \E r \in inversiones_institucionales : r.ano = Entero(f.ano)
               /\ inversiones_institucional_registrar(1, TRUE, "POST", f)) =>
                  /\ resp'.error = "ya_existe"
                  /\ resp'.destino = "inversiones_institucional_form.html"
                  /\ UNCHANGED TablasInversiones
       /\ \A f \in FormsPrograma :
              (/\ EsEntero(f.libros_titulos)
               /\ f.programa # ""
               /\ \E r \in inversiones_programas :
                      r.ano = Entero(f.ano) /\ r.programa = f.programa
               /\ inversiones_programas_registrar(1, TRUE, "POST", f)) =>
                  /\ resp'.error = "ya_existe"
                  /\ resp'.destino = "inversiones_programas_form.html"
                  /\ UNCHANGED TablasInversiones]_vars

\* a second registration was refused while both tables held rows
C22_Witness ==
    /\ resp.error = "ya_existe"
    /\ resp.ruta \in {"inversiones_institucional_registrar", "inversiones_programas_registrar"}
    /\ Cardinality(inversiones_institucionales) = 2
    /\ Cardinality(inversiones_programas) >= 2

(***************************************************************************)
(* Properties of the accounts (under SpecCuentas).                         *)
(***************************************************************************)
\* a /registro POST has just been answered
RegistroRespondido == resp' # resp /\ resp'.ruta = "registro" /\ resp'.dato.metodo = "POST"

UsuarioExiste(username) == \E r \in usuarios : r.username = Strip(username)

UsuariosDistintos == \A a, b \in usuarios : a.username = b.username => a = b

\* C23 as stated: no two users share a username; a /registro POST with a
\* username that already exists leaves the users table unchanged and shows
\* 'El usuario ya existe'; a POST with a trimmed username shorter than 7
\* characters or a password shorter than 8 stores no user.
C23_Original ==
    [][/\ UsuariosDistintos'
       /\ RegistroRespondido =>
              /\ UsuarioExiste(resp'.dato.username) =>
                     usuarios' = usuarios /\ resp'.error = "el_usuario_ya_existe"
              /\ (Len(Strip(resp'.dato.username)) < 7 \/ Len(resp'.dato.password) < 8) =>
                     usuarios' = usuarios]_vars

\* C23: no two users share a username; a /registro POST with a username that
\* already exists leaves the users table unchanged, and shows 'El usuario ya
\* existe' when its password has at least 8 characters (the length checks
\* come first); a POST with a trimmed username shorter than 7 characters or
\* a password shorter than 8 stores no user.
C23_UsuarioUnico ==
    [][/\ UsuariosDistintos'
       /\ RegistroRespondido =>
              /\ UsuarioExiste(resp'.dato.username) =>
                     /\ usuarios' = usuarios
                     /\ Len(resp'.dato.password) >= 8 => resp'.error = "el_usuario_ya_existe"
              /\ (Len(Strip(resp'.dato.username)) < 7 \/ Len(resp'.dato.password) < 8) =>
                     usuarios' = usuarios]_vars

\* a second registration of a stored name, with a password long enough, was
\* turned down
C23_Witness ==
    /\ resp.ruta = "registro"
    /\ resp.error = "el_usuario_ya_existe"
    /\ \E r \in usuarios : r.username = Strip(resp.dato.username)
    /\ Len(resp.dato.password) >= 8

\* the stored hash is the hash of this password
ClaveCorrecta(user, clave) == user.password.resumen = <<user.password.sal, clave>>

\* C26: session['usuario'] is set only by a /login POST whose username
\* exists and whose password matches the stored hash; /logout leaves no
\* 'usuario' in the session; while there is none, /dashboard and /panel
\* redirect to login.
C26_SesionSoloPorLogin ==
    [][/\ (session' # session /\ session' # "") =>
              /\ resp'.ruta = "login"
              /\ resp'.dato.metodo = "POST"
              /\ \E user \in usuarios :
                     /\ user.username = Strip(resp'.dato.username)
                     /\ user.username = session'
                     /\ ClaveCorrecta(user, resp'.dato.password)
       /\ (resp' # resp /\ resp'.ruta = "logout") => session' = ""
       /\ (resp' # resp /\ resp'.ruta \in {"dashboard", "panel"} /\ session = "") =>
              resp'.codigo = 302 /\ resp'.destino = "login"
       /\ (resp' # resp /\ resp'.ruta \in {"dashboard", "panel"} /\ session # "") =>
              resp'.codigo = 200]_vars

\* a login with the stored password has opened the session
C26_Witness ==
    /\ resp.ruta = "login"
    /\ resp.codigo = 302
    /\ session = Strip(resp.dato.username)
    /\ session # ""

(***************************************************************************)
(* Properties of the start-up (under SpecArranque).                        *)
(***************************************************************************)
\* thread p returns a /panel page that carries the cleanup message
MuestraMensaje(p) == pc[p] = "panel_limpiar" /\ pc'[p] = "idle"

\* thread p returns a /panel page in one step, with no success text at all
PanelSinMensaje(p) ==
    /\ pc[p] = "idle"
    /\ pc'[p] = "idle"
    /\ resp' # resp
    /\ resp'.proc = p
    /\ resp'.ruta = "panel"
    /\ resp'.codigo = 200
    /\ resp'.dato.success = <<>>

\* C24: the cleanup message of the start-up is shown by /panel at most once
\* in the life of the process, in any interleaving of /panel requests: a
\* page shows it only while it is still pending, and that page clears it; a
\* page of an authenticated request without a success parameter leaves it
\* out only when it is no longer pending.
C24_MensajeUnaVez ==
    [][\A p \in Procs :
           /\ MuestraMensaje(p) =>
                  mensaje_limpieza_global # <<>> /\ mensaje_limpieza_global' = <<>>
           /\ PanelSinMensaje(p) => mensaje_limpieza_global = <<>>]_vars

\* the rows with the smallest id of their triple
PrimerasDeCadaTriple(tabla) ==
    {r \in tabla : \A q \in tabla : Clave(q) = Clave(r) => r.id <= q.id}

HayTriplesRepetidos(tabla) == \E a, b \in tabla : a # b /\ Clave(a) = Clave(b)

\* init_db has just run: at the import, or from /admin/init-db
CorrioInitDb ==
    \/ \A p \in Procs : pc[p] = "importando" /\ pc'[p] = "idle"
    \/ resp' # resp /\ resp'.ruta = "init_db_route" /\ resp'.codigo # 403

\* C27: when init_db finds attendance rows sharing a triple it keeps exactly
\* the row with the smallest id of each triple, deletes the others, deletes
\* no row whose triple is unique, and returns a message giving the number
\* deleted; on a table without repeated triples it deletes nothing and
\* returns no message.
C27_LimpiezaDeDuplicados ==
    [][CorrioInitDb =>
           /\ asistencias' = PrimerasDeCadaTriple(asistencias)
           /\ resp'.dato = IF HayTriplesRepetidos(asistencias)
                           THEN <<Cardinality(asistencias) - Cardinality(asistencias')>>
                           ELSE <<>>
           /\ resp'.error = ""]_vars

\* /admin/init-db has just answered
InitDbRouteRespondio ==
    /\ resp'.ruta = "init_db_route"
    /\ \/ resp' # resp
       \/ asistencias' # asistencias
       \/ modalidades' # modalidades
       \/ seq' # seq

\* C29: once the users table holds a user, every request to /admin/init-db
\* answers 403 and changes no table; the route runs init_db, answering 200
\* or 500, only when the users table is empty.
C29_InitDbSoloSinUsuarios ==
    [][InitDbRouteRespondio =>
           IF usuarios # {}
           THEN /\ resp'.codigo = 403
                /\ asistencias' = asistencias
                /\ evaluaciones' = evaluaciones
                /\ modalidades' = modalidades
                /\ programas' = programas
                /\ usuarios' = usuarios
                /\ seq' = seq
           ELSE resp'.codigo \in {200, 500}]_vars

\* the route refused to run over a database that init_db would have changed
C29_Witness ==
    /\ usuarios # {}
    /\ resp.ruta = "init_db_route"
    /\ resp.codigo = 403
    /\ \/ HayTriplesRepetidos(asistencias)
       \/ \E i \in 1..Len(modalidades_default) :
              \A m \in modalidades : m.nombre # modalidades_default[i]

(***************************************************************************)
(* Properties of the year window (under SpecVentana).                      *)
(***************************************************************************)
\* C30: for every num_anos >= 1, get_ventana_anos(num_anos) returns exactly
\* num_anos consecutive years in increasing order whose last element is the
\* current year, with ano_inicio the first element and ano_fin the last; in
\* 2025 with num_anos = 5 the list is 2021, 2022, 2023, 2024, 2025.
C30_VentanaDeAnos ==
    (resp.ruta = "get_ventana_anos" /\ resp.dato.num_anos >= 1) =>
        LET v == resp.dato.ventana
        IN  /\ Len(v.anos) = resp.dato.num_anos
            /\ \A i \in 1..(Len(v.anos) - 1) : v.anos[i + 1] = v.anos[i] + 1
            /\ v.anos[Len(v.anos)] = resp.dato.ano
            /\ v.ano_inicio = v.anos[1]
            /\ v.ano_fin = v.anos[Len(v.anos)]
            /\ (resp.dato.ano = 2025 /\ resp.dato.num_anos = 5) =>
                   v.anos = <<2021, 2022, 2023, 2024, 2025>>

\* the call of the example: five years in 2025
C30_Witness ==
    /\ resp.ruta = "get_ventana_anos"
    /\ resp.dato.ano = 2025
    /\ resp.dato.num_anos = 5
    /\ resp.dato.ventana.ano_inicio = 2021

(***************************************************************************)
(* Properties of the toggles (under SpecCatalogo).                         *)
(***************************************************************************)
\* despues is antes with the flag of row id flipped between 1 and 0, and
\* every other row, and the name of row id, as they were
SoloCambiaEstado(antes, despues, id) ==
    /\ {r \in despues : r.id # id} = {r \in antes : r.id # id}
    /\ \A r \in antes :
           r.id = id =>
               /\ r.activo \in {0, 1}
               /\ {q \in despues : q.id = id} = {[r EXCEPT !.activo = 1 - r.activo]}

\* C28: toggle_programa and api_toggle_modalidad flip only the targeted
\* row's activo flag between 1 and 0 (so a second toggle of the same id
\* restores it); no other program or modality row's flag or name changes;
\* toggling an id that does not exist returns 404 and changes nothing.
C28_ToggleSoloLaFila ==
    [][/\ \A id \in 1..(MaxCatalogo + 1) :
            toggle_programa(1, TRUE, id) =>
                /\ modalidades' = modalidades
                /\ IF \E r \in programas : r.id = id
                   THEN /\ resp'.codigo = 200
                        /\ SoloCambiaEstado(programas, programas', id)
                   ELSE resp'.codigo = 404 /\ programas' = programas
       /\ \A id \in IdsModalidad :
            api_toggle_modalidad(1, TRUE, id) =>
                /\ programas' = programas
                /\ IF \E r \in modalidades : r.id = id
                   THEN /\ resp'.codigo = 200
                        /\ SoloCambiaEstado(modalidades, modalidades', id)
                   ELSE resp'.codigo = 404 /\ modalidades' = modalidades
      ]_vars

\* one of two programs was switched off and then on again, next to a
\* program whose flag stayed
C28_Witness ==
    /\ resp.ruta = "toggle_programa"
    /\ resp.codigo = 200
    /\ resp.dato = 1
    /\ Cardinality(programas) = 2
    /\ \A r \in programas : r.activo = 1

(***************************************************************************)
(* Properties of the ranking of programs (under SpecTop).                  *)
(***************************************************************************)
\* the statistics page was rendered with data
HayTop == resp.ruta = "estadisticas" /\ resp.codigo = 200 /\ resp.error = ""

AsistenciasDe(filas, evento, programa) ==
    Cardinality({r \in filas : r.nombre_evento = evento /\ r.programa_estudiante = programa})

ProgramasDe(filas, evento) ==
    {r.programa_estudiante : r \in {q \in filas : q.nombre_evento = evento}}

\* C25: for every event of the filtered rows, top_por_evento lists
\* min(5, number of programs with attendance at the event) programs with
\* rankings 1..k in order and their attendance counts; the totals do not
\* increase with the rank, and no program left out has strictly more
\* attendances at the event than a listed one.
C25_TopPorEvento ==
    HayTop =>
        LET filas == resp.dato.filas
            top == resp.dato.top_por_evento
        IN  /\ DOMAIN top = {r.nombre_evento : r \in filas}
            /\ \A e \in DOMAIN top :
                   LET todos == ProgramasDe(filas, e)
                       listados == {top[e][i].programa : i \in 1..Len(top[e])}
                   IN  /\ Len(top[e]) = IF Cardinality(todos) <= 5
                                        THEN Cardinality(todos) ELSE 5
                       /\ listados \subseteq todos
                       /\ Cardinality(listados) = Len(top[e])
                       /\ \A i \in 1..Len(top[e]) :
                              /\ top[e][i].ranking = i
                              /\ top[e][i].total = AsistenciasDe(filas, e, top[e][i].programa)
                       /\ \A i \in 1..(Len(top[e]) - 1) :
                              top[e][i].total >= top[e][i + 1].total
                       /\ \A pr \in todos \ listados : \A i \in 1..Len(top[e]) :
                              AsistenciasDe(filas, e, pr) <= top[e][i].total

\* six programs at one event with unequal counts: five are listed, and a
\* program with one attendance is left out
C25_Witness ==
    /\ HayTop
    /\ \E e \in DOMAIN resp.dato.top_por_evento :
           /\ Cardinality(ProgramasDe(resp.dato.filas, e)) > 5
           /\ Len(resp.dato.top_por_evento[e]) = 5
           /\ resp.dato.top_por_evento[e][1].total > resp.dato.top_por_evento[e][5].total

====
